---- MODULE Spec2Model ----
(***************************************************************************)
(* A model of the mexdown parser (src/parser/parse.go) and of the HTML     *)
(* generators (package html: Generator and Genner).                        *)
(*                                                                         *)
(* Text is a sequence of one-character strings (one per code point).       *)
(* The reader p.b is the sequence of code points still to be read; a       *)
(* pushback (bufio.NewReader(io.MultiReader(strings.NewReader(s), p.b)))   *)
(* is s \o b.  The current rune p.r is a character or eof.                 *)
(*                                                                         *)
(* Six specifications:                                                     *)
(*   SpecText  the inline formatter parser.text, one tokenizer iteration   *)
(*             per step, on the stream Parse builds for a paragraph body;  *)
(*   Spec      Parse: statement loop, paragraph merging, format pass;      *)
(*   SpecGen   Generator: a pipe, Start, its goroutine, Wait;              *)
(*   SpecRead  Genner.Read, its goroutine and the syncBuffer;              *)
(*   SpecRun   Generator.gen: the statement loop, the writers, the ctx;    *)
(*   SpecHtml  Generator.text: the HTML of the Text of a paragraph.        *)
(***************************************************************************)
EXTENDS Integers, Sequences, FiniteSets, TLC

VARIABLES
    tpc,      \* SpecText: position inside parser.text
    tin,      \* SpecText: the body handed to parser.text
    ts,       \* SpecText: locals of the tokenizer loop (r, b, pos, tokens, buf, inRaw)
    tok0,     \* SpecText: the token list as the tokenizer left it
    cs,       \* SpecText: locals of the raw/citation passes (arr, n, format, scopes, labels, panic)
    input,    \* Spec: the source handed to Parse
    pc,       \* Spec: position inside Parse
    p,        \* Spec: the parser struct (r, b, st, cite, errors)
    List,     \* Spec: f.List
    pre,      \* Spec: f.List as the statement loop left it
    mi,       \* Spec: i of the merge loop (j is always i + 1)
    fi,       \* Spec: i of the format loop
    err,      \* Spec: the error Parse returns
    must,     \* Spec: what MustParse does with the result of Parse
    g,        \* SpecGen: the Generator struct (Stdout, Stderr, waitdone, m, pipes)
    pw,       \* SpecGen: the io.Pipe (a chunk written and not yet read, closed)
    run,      \* SpecGen: the writes g.gen() has left and the error it returns
    gopc,     \* SpecGen: position of the goroutine of Start
    cpc,      \* SpecGen: position of the caller
    ret,      \* SpecGen: what Wait returned
    waits,    \* SpecGen: the calls of Wait made after the first has returned
    gr,       \* SpecRead: the Genner struct (launched, done)
    sb,       \* SpecRead: g.out, the syncBuffer (b, err)
    wt,       \* SpecRead: the goroutine of Read (pc, the chunks WriteTo has left, its error)
    rd,       \* SpecRead: io.Copy, the reader (pc, len(p), n and err of Read, the bytes copied)
    sw,       \* SpecRun: g.Stdout, g.Stderr and the mutex of the syncWriter
    th,       \* SpecRun: the goroutines that write (pc, writes left): gen and the two copiers of os/exec
    loop,     \* SpecRun: g.file.List (kinds), i of the loop of gen, g.ctx
    sink,     \* SpecRun: the number of writes that reached the sink, per statement
    hpc,      \* SpecHtml: the position in Generator.text
    ht,       \* SpecHtml: t, the ast.Text being rendered (Body, Format)
    rep,      \* SpecHtml: rep, the replacements
    fx        \* SpecHtml: bottom and current of the loop that fixes the format tree

tvars == <<tpc, tin, ts, tok0, cs>>
pvars == <<input, pc, p, List, pre, mi, fi, err, must>>
gvars == <<g, pw, run, gopc, cpc, ret, waits>>
rvars == <<gr, sb, wt, rd>>
svars == <<sw, th, loop, sink>>
hvars == <<hpc, ht, rep, fx>>
vars ==
    <<tpc, tin, ts, tok0, cs, input, pc, p, List, pre, mi, fi, err, must,
      g, pw, run, gopc, cpc, ret, waits,
      gr, sb, wt, rd,
      sw, th, loop, sink,
      hpc, ht, rep, fx>>

----------------------------------------------------------------------------
(* Runes                                                                   *)

\* const eof = -1: the rune value no character has.
eof == "eof"

\* utf8.RuneError, U+FFFD: what string(eof) and WriteRune(eof) produce, and
\* what ReadRune returns for an invalid byte.
RuneError == "U+FFFD"

\* string(r) / strings.Builder.WriteRune(r) for a rune r that may be eof.
RuneStr(r) == IF r = eof THEN RuneError ELSE r

\* func (p *parser) next(): the rune read and the reader left behind.
\* An exhausted reader (io.EOF) and U+FFFD both read as eof; only the first
\* is permanent.
next(b) ==
    IF b = <<>> THEN [r |-> eof, b |-> <<>>]
    ELSE [r |-> IF Head(b) = RuneError THEN eof ELSE Head(b), b |-> Tail(b)]

\* backtick = the Unicode code point U+0060 (SANY accepts no backtick inside
\* a string, so the character is written by name).
backtick == "backtick"


\* func escapable(r rune) bool
escapable(r) ==
    r \in {"\\", "#", backtick, "-", "*", "[", "]", "(", ")", "_"}

----------------------------------------------------------------------------
(* parser.text: the tokenizer loop                                         *)

token(s, pos) == [s |-> s, pos |-> pos]

Pop(tokens) == SubSeq(tokens, 1, Len(tokens) - 1)

\* top.s == s && (pos-top.pos) == 1, guarded by len(tokens) > 0
TopIs(tokens, s, pos) ==
    /\ Len(tokens) > 0
    /\ tokens[Len(tokens)].s = s
    /\ pos - tokens[Len(tokens)].pos = 1

\* case '*': a run of two or three asterisks becomes one token
asterisk(tokens, pos) ==
    IF TopIs(tokens, "*", pos) THEN Append(Pop(tokens), token("**", pos))
    ELSE IF TopIs(tokens, "**", pos) THEN Append(Pop(tokens), token("***", pos))
    ELSE Append(tokens, token("*", pos))

\* case '-'
hyphen(tokens, pos) ==
    IF TopIs(tokens, "-", pos) THEN Append(Pop(tokens), token("--", pos))
    ELSE Append(tokens, token("-", pos))

\* case '(': "](" replaces an immediately preceding "]"
lparen(tokens, pos) ==
    IF TopIs(tokens, "]", pos)
    THEN [tokens EXCEPT ![Len(tokens)] = token("](", pos)]
    ELSE tokens

\* default: an ordinary character cancels a lone "-" on top of the stack
ordinary(tokens) ==
    IF Len(tokens) > 0 /\ tokens[Len(tokens)].s = "-" THEN Pop(tokens) ELSE tokens

\* case '\\' with every escape taken literally (the backslash is kept)
backslashKeep(t) ==
    LET nx == next(t.b)
    IN  [t EXCEPT !.r = nx.r, !.b = nx.b,
                  !.pos = t.pos + 1,
                  !.buf = t.buf \o <<"\\", RuneStr(nx.r)>>]

\* case '\\': p.next(); the backslash is written unless the next rune is
\* escapable and the text is not raw; then the next rune is written.
backslash(t) ==
    LET nx  == next(t.b)
        lit == ~escapable(nx.r) \/ t.inRaw
    IN  [t EXCEPT !.r = nx.r, !.b = nx.b,
                  !.pos = IF lit THEN t.pos + 1 ELSE t.pos,
                  !.buf = IF lit THEN t.buf \o <<"\\", RuneStr(nx.r)>>
                                 ELSE Append(t.buf, RuneStr(nx.r))]

\* The switch of one loop iteration (without the trailing p.next(); pos++).
tokenCase(t) ==
    CASE t.r = "*"  -> [t EXCEPT !.buf = Append(t.buf, t.r),
                                 !.tokens = asterisk(t.tokens, t.pos)]
      [] t.r \in {"_", "[", "]", ")"} ->
                       [t EXCEPT !.buf = Append(t.buf, t.r),
                                 !.tokens = Append(t.tokens, token(t.r, t.pos))]
      [] t.r = "("  -> [t EXCEPT !.buf = Append(t.buf, t.r),
                                 !.tokens = lparen(t.tokens, t.pos)]
      [] t.r = backtick ->
                       [t EXCEPT !.buf = Append(t.buf, t.r),
                                 !.tokens = Append(t.tokens, token(backtick, t.pos)),
                                 !.inRaw = ~t.inRaw]
      [] t.r = "-"  -> [t EXCEPT !.buf = Append(t.buf, t.r),
                                 !.tokens = hyphen(t.tokens, t.pos)]
      [] t.r = "\\" -> backslash(t)
      [] OTHER      -> [t EXCEPT !.buf = Append(t.buf, t.r),
                                 !.tokens = ordinary(t.tokens)]

\* One iteration of: for p.r != end && p.r != eof { switch ...; p.next(); pos++ }
tokenStep(t) ==
    LET u  == tokenCase(t)
        nx == next(u.b)
    IN  [u EXCEPT !.r = nx.r, !.b = nx.b, !.pos = u.pos + 1]

\* The locals of parser.text at entry, with the parser's p.r and p.b.
textEntry(r, b) ==
    [r |-> r, b |-> b, pos |-> 0, tokens |-> <<>>, buf |-> <<>>, inRaw |-> FALSE]

RECURSIVE tokenize(_, _)
tokenize(t, end) ==
    IF t.r = end \/ t.r = eof THEN t ELSE tokenize(tokenStep(t), end)

----------------------------------------------------------------------------
(* parser.text: slices of tokens                                           *)
(*                                                                         *)
(* tokens is a Go slice: arr is its backing array (as far as it was ever   *)
(* written) and n its length.  Removing tokens[a..i] moves the tail down   *)
(* in place and leaves the old elements behind the new length.             *)

\* tokens = append(tokens[:a], tokens[i+1:]...)   (a, i are Go indices)
removeArr(arr, n, a, i) ==
    [k \in 1..Len(arr) |->
        IF k > a /\ k <= a + (n - i - 1) THEN arr[k + (i + 1 - a)] ELSE arr[k]]

removeLen(n, a, i) == a + (n - i - 1)

\* tokens[a:b] is legal when 0 <= a <= b <= cap(tokens).  Every b the code
\* uses was an index below an earlier length, so the written part of the
\* backing array stands for the capacity.
sliceOK(arr, a, b) == 0 <= a /\ a <= b /\ b <= Len(arr)

slice(arr, a, b) == SubSeq(arr, a + 1, b)

fmt(kind, beg, end) == [Kind |-> kind, Beg |-> beg, End |-> end]

----------------------------------------------------------------------------
(* parser.text: lowprec, the emphasis resolver                             *)

\* The slot of idx a token string uses (-1: not an emphasis token).
kindIndex(s) ==
    CASE s = "*"   -> 0
      [] s = "**"  -> 1
      [] s = "***" -> 2
      [] s = "--"  -> 3
      [] s = "_"   -> 4
      [] OTHER     -> -1

kindName(k) ==
    <<"Italic", "Bold", "BoldItalic", "Strikethrough", "Underline">>[k + 1]

\* A closing pair resets only the opener of its own kind.
resetsOwn(k) == {k}

\* A closing pair resets the openers of all five kinds.
resetsAll(k) == {0, 1, 2, 3, 4}

\* The slots of idx a closing pair of kind k sets back to -1: the three
\* asterisk kinds reset one another, "--" and "_" only themselves.
resets(k) == IF k \in {0, 1, 2} THEN {0, 1, 2} ELSE {k}

\* for i := range tokens { switch tokens[i].s { ... } } of lowprec.
\* out collects the spans in emission order, each with the indices (into
\* the slice) of the two tokens it pairs.
RECURSIVE lowprecLoop(_, _, _, _)
lowprecLoop(tokens, i, idx, out) ==
    IF i >= Len(tokens) THEN out
    ELSE
        LET k == kindIndex(tokens[i + 1].s)
        IN  IF k = -1 THEN lowprecLoop(tokens, i + 1, idx, out)
            ELSE
                LET o == IF idx[k + 1] = -1 THEN i ELSE idx[k + 1]
                IN  IF o < i
                    THEN lowprecLoop(tokens, i + 1,
                             [j \in 1..5 |-> IF (j - 1) \in resets(k) THEN -1 ELSE idx[j]],
                             Append(out, [Kind |-> kindName(k),
                                          Beg |-> tokens[o + 1].pos,
                                          End |-> tokens[i + 1].pos,
                                          open |-> o, close |-> i]))
                    ELSE lowprecLoop(tokens, i + 1, [idx EXCEPT ![k + 1] = o], out)

\* lowprec := func(tokens []token): the spans it appends to format.
lowprec(tokens) == lowprecLoop(tokens, 0, <<-1, -1, -1, -1, -1>>, <<>>)

\* The ast.Format values of the spans of one lowprec call.
formats(spans) == [x \in 1..Len(spans) |-> fmt(spans[x].Kind, spans[x].Beg, spans[x].End)]

\* One call of lowprec as the passes record it: the slice it was given and
\* the spans it emitted.
scope(tokens) == [toks |-> tokens, spans |-> lowprec(tokens)]

----------------------------------------------------------------------------
(* parser.text: the raw pass                                               *)

\* A raw pass that emits the Raw span and removes no token.
rawRemoveNone(c, ib, i) ==
    [c EXCEPT !.format = Append(c.format, fmt("Raw", c.arr[ib + 1].pos, c.arr[i + 1].pos))]

\* if ib < i { format = append(...); tokens = append(tokens[:ib], tokens[i+1:]...) }
rawRemove(c, ib, i) ==
    [c EXCEPT !.format = Append(c.format, fmt("Raw", c.arr[ib + 1].pos, c.arr[i + 1].pos)),
              !.arr = removeArr(c.arr, c.n, ib, i),
              !.n = removeLen(c.n, ib, i)]

\* for i := 0; i < len(tokens); i++ { if tokens[i].s == "`" { ... } }
RECURSIVE rawLoop(_, _, _)
rawLoop(c, i, ib) ==
    IF i >= c.n THEN c
    ELSE IF c.arr[i + 1].s # backtick THEN rawLoop(c, i + 1, ib)
    ELSE LET ib1 == IF ib = -1 THEN i ELSE ib
         IN  IF ib1 < i
             THEN LET d == rawRemove(c, ib1, i)
                  IN  rawLoop(d, i - (c.n - d.n) + 1, -1)
             ELSE rawLoop(c, i + 1, ib1)

\* The locals of the passes once the tokenizer has finished.  scopes and
\* labels are a record of what the passes did: the lowprec calls, and for
\* every Cite emitted the positions of the two tokens its label lies between.
passEntry(tokens) ==
    [arr |-> tokens, n |-> Len(tokens), format |-> <<>>, scopes |-> <<>>, labels |-> <<>>,
     panic |-> FALSE]

rawPass(c) == rawLoop(c, 0, -1)

----------------------------------------------------------------------------
(* parser.text: the citation pass                                          *)

\* Go's cit[k], k = 0..3
at(cit, k) == cit[k + 1]

\* case "[": the newest "[" is the open one; a later "[" drops what was
\* recorded for the earlier one.
citeLBrack(c, i, cit) ==
    IF at(cit, 0) = -1 THEN [c |-> c, i |-> i + 1, cit |-> [cit EXCEPT ![1] = i]]
    ELSE IF at(cit, 0) < i THEN [c |-> c, i |-> i + 1, cit |-> <<i, -1, -1, -1>>]
    ELSE [c |-> c, i |-> i + 1, cit |-> cit]

\* The body of `if cit[0] != -1` / `if cit[0] != -1 && cit[2] != -1`:
\* emit the Cite from tokens[cit[0]] to tokens[i], resolve tokens[cit[0]:hi]
\* with lowprec and remove tokens[cit[0]..i].
citeClose(c, i, cit, hi, cit1) ==
    IF ~sliceOK(c.arr, at(cit, 0), hi)
    THEN [c |-> [c EXCEPT !.panic = TRUE], i |-> i, cit |-> cit]
    ELSE
        LET sc == scope(slice(c.arr, at(cit, 0), hi))
            d  == [c EXCEPT
                     !.format = Append(c.format,
                                       fmt("Cite", c.arr[at(cit, 0) + 1].pos, c.arr[i + 1].pos))
                                \o formats(sc.spans),
                     !.scopes = Append(c.scopes, sc),
                     !.labels = Append(c.labels, [Beg |-> c.arr[at(cit, 0) + 1].pos,
                                                  End |-> c.arr[hi].pos]),
                     !.arr = removeArr(c.arr, c.n, at(cit, 0), i),
                     !.n = removeLen(c.n, at(cit, 0), i)]
        IN  [c |-> d, i |-> i - (c.n - d.n) + 1, cit |-> cit1]

\* case "]"
citeRBrack(c, i, cit) ==
    LET cit1 == IF at(cit, 1) = -1 THEN [cit EXCEPT ![2] = i] ELSE cit
    IN  IF at(cit1, 0) # -1
        THEN citeClose(c, i, cit1, i + 1, [cit1 EXCEPT ![1] = -1, ![2] = -1])
        ELSE [c |-> c, i |-> i + 1, cit |-> cit1]

\* case "]("
citeSource(c, i, cit) ==
    LET cit1 == IF at(cit, 2) = -1 THEN [cit EXCEPT ![3] = i] ELSE cit
    IN  [c |-> c, i |-> i + 1,
         cit |-> IF at(cit1, 0) = -1 THEN [cit1 EXCEPT ![3] = -1] ELSE cit1]

\* case ")"
citeRParen(c, i, cit) ==
    LET cit1 == IF at(cit, 3) = -1 THEN [cit EXCEPT ![4] = i] ELSE cit
    IN  IF at(cit1, 0) # -1 /\ at(cit1, 2) # -1
        THEN citeClose(c, i, cit1, at(cit1, 2) + 1,
                       [cit1 EXCEPT ![1] = -1, ![2] = -1, ![3] = -1])
        ELSE [c |-> c, i |-> i + 1, cit |-> cit1]

\* for i := 0; i < len(tokens); i++ { switch tokens[i].s { ... } }
RECURSIVE citeLoop(_, _, _)
citeLoop(c, i, cit) ==
    IF c.panic \/ i >= c.n THEN [c |-> c, cit |-> cit]
    ELSE
        LET s == c.arr[i + 1].s
            x == CASE s = "["  -> citeLBrack(c, i, cit)
                   [] s = "]"  -> citeRBrack(c, i, cit)
                   [] s = "](" -> citeSource(c, i, cit)
                   [] s = ")"  -> citeRParen(c, i, cit)
                   [] OTHER    -> [c |-> c, i |-> i + 1, cit |-> cit]
        IN  citeLoop(x.c, x.i, x.cit)

\* if cit[0] > -1 && cit[2] > cit[0] { format = append(... tokens[cit[2]].pos - 1) }
citeFallback(c, cit) ==
    IF at(cit, 0) > -1 /\ at(cit, 2) > at(cit, 0)
    THEN IF at(cit, 2) >= c.n
         THEN [c EXCEPT !.panic = TRUE]
         ELSE [c EXCEPT !.format =
                  Append(c.format, fmt("Cite", c.arr[at(cit, 0) + 1].pos,
                                               c.arr[at(cit, 2) + 1].pos - 1)),
                        !.labels =
                  Append(c.labels, [Beg |-> c.arr[at(cit, 0) + 1].pos,
                                    End |-> c.arr[at(cit, 2) + 1].pos])]
    ELSE c

\* The citation loop and the fallback after it.
citePass(c) ==
    LET x == citeLoop(c, 0, <<-1, -1, -1, -1>>)
    IN  IF x.c.panic THEN x.c ELSE citeFallback(x.c, x.cit)

\* lowprec(tokens) of the last pass
lastPass(c) ==
    LET sc == scope(slice(c.arr, 0, c.n))
    IN  [c EXCEPT !.format = c.format \o formats(sc.spans),
                  !.scopes = Append(c.scopes, sc)]

\* The passes over the tokens the tokenizer produced; a panic ends them.
lastPassUnlessPanic(c) == IF c.panic THEN c ELSE lastPass(c)

passes(tokens) == lastPassUnlessPanic(citePass(rawPass(passEntry(tokens))))

\* return ast.Text{Format: format, Body: buf.String()}, with p.r and p.b as
\* the p.next() after the tokenizer loop left them (nx)
textResult(t, nx, d) ==
    [Body |-> t.buf, Format |-> d.format, panic |-> d.panic, r |-> nx.r, b |-> nx.b]

\* parser.text from the end of the tokenizer loop on
textAfter(t) == textResult(t, next(t.b), passes(t.tokens))

\* func (p *parser) text(end rune) ast.Text, with the parser state it leaves
text(r, b, end) == textAfter(tokenize(textEntry(r, b), end))

----------------------------------------------------------------------------
(* The parser struct and the readers of the block segmenter                *)
(*                                                                         *)
(* q is the parser: r, b, st, cite, errors, and panic, which is set once a *)
(* run-time panic has been raised (the call stack is then unwinding and    *)
(* nothing computed afterwards is ever returned).                          *)

\* p.next() on the parser
advance(q) == LET nx == next(q.b) IN [q EXCEPT !.r = nx.r, !.b = nx.b]

\* rdr := io.MultiReader(strings.NewReader(s+string(p.r)), p.b)
\* p.b = bufio.NewReader(rdr); p.next()
pushback(q, s) == advance([q EXCEPT !.b = s \o <<RuneStr(q.r)>> \o q.b])

\* func (p *parser) errorf
errorf(q, msg, arg) == [q EXCEPT !.errors = Append(q.errors, [msg |-> msg, arg |-> arg])]

\* The three ways str is called: its end, esc and f arguments.
\*   "label"    str(r == ']', r == '\\' || r == ']', nil)   citation, listItem
\*   "newlines" str(r != '\n', r == '\\', nil)              paragraph
\*   "line"     str(r == '\n', nil, p.r != '\r')            line
strEnd(mode, r) ==
    CASE mode = "label"    -> r = "]"
      [] mode = "newlines" -> r # "\n"
      [] mode = "line"     -> r = "\n"

strEsc(mode, r) ==
    CASE mode = "label"    -> r \in {"\\", "]"}
      [] mode = "newlines" -> r = "\\"
      [] mode = "line"     -> FALSE

strHasEsc(mode) == mode # "line"

strKeep(mode, r) == IF mode = "line" THEN r # "\r" ELSE TRUE

\* The loop of str: buf is the unescaped text, eb the text as read.
RECURSIVE strLoop(_, _, _, _)
strLoop(q, buf, eb, mode) ==
    LET isEsc   == q.r = "\\" /\ strHasEsc(mode)
        q1      == IF isEsc THEN advance(q) ELSE q
        eb1     == IF isEsc THEN Append(eb, "\\") ELSE eb
        escaped == isEsc /\ strEsc(mode, q1.r)
        buf1    == IF isEsc /\ ~escaped THEN Append(buf, "\\") ELSE buf
    IN  IF (strEnd(mode, q1.r) /\ ~escaped) \/ q1.r = eof
        THEN [p |-> q1, v |-> IF q1.r = eof THEN eb1 ELSE buf1]
        ELSE IF strKeep(mode, q1.r)
             THEN strLoop(advance(q1), Append(buf1, q1.r), Append(eb1, q1.r), mode)
             ELSE strLoop(advance(q1), buf1, eb1, mode)

\* func (p *parser) str(end func(rune) bool, esc, f func(rune) bool) string
str(q, mode) == strLoop(q, <<>>, <<>>, mode)

\* func (p *parser) line(esc func(r rune) bool) string, always called as line(nil)
line(q) ==
    LET x == str(q, "line")
    IN  [p |-> advance(x.p),
         v |-> IF x.p.r = "\n" THEN Append(x.v, "\n") ELSE x.v]

\* strings.TrimSuffix(l, "\n")
TrimSuffix(l) ==
    IF Len(l) > 0 /\ l[Len(l)] = "\n" THEN SubSeq(l, 1, Len(l) - 1) ELSE l

\* unicode.IsSpace on the characters of the model
IsSpace(c) == c \in {" ", "\t", "\n", "\r"}

RECURSIVE TrimLeft(_)
TrimLeft(l) == IF Len(l) > 0 /\ IsSpace(l[1]) THEN TrimLeft(Tail(l)) ELSE l

RECURSIVE TrimRight(_)
TrimRight(l) ==
    IF Len(l) > 0 /\ IsSpace(l[Len(l)]) THEN TrimRight(SubSeq(l, 1, Len(l) - 1)) ELSE l

\* strings.TrimSpace
TrimSpace(l) == TrimRight(TrimLeft(l))

----------------------------------------------------------------------------
(* Statements                                                              *)

\* p.st == nil
NoStmt == [type |-> "nil"]

Paragraph(body, format) == [type |-> "Paragraph", Body |-> body, Format |-> format]

Header(n, txt) == [type |-> "Header", NThorpe |-> n, Text |-> txt]

Directive(cmd, raw) == [type |-> "Directive", Command |-> cmd, Raw |-> raw]

ListStmt(items) == [type |-> "List", Items |-> items]

Citation(label, src) == [type |-> "Citation", Label |-> label, Src |-> src]

\* ast.Text of a text() result
Text(x) == [Body |-> x.Body, Format |-> x.Format]

\* The parser and the ast.Text after a call of p.text
textOn(q, x) ==
    [p |-> [q EXCEPT !.r = x.r, !.b = x.b, !.panic = q.panic \/ x.panic],
     v |-> Text(x)]

\* p.text(end) on the parser: the ast.Text and the parser afterwards
parserText(q, end) == textOn(q, text(q.r, q.b, end))

\* The paragraph made of its first line x and the run of newlines y after it.
paragraphOf(x, y) == [p |-> y.p, v |-> Paragraph(x.v \o y.v, <<>>)]

\* b := p.line(nil); b += p.str(r != '\n', r == '\\', nil)
paragraphFrom(x) == paragraphOf(x, str(x.p, "newlines"))

\* func (p *parser) paragraph(before string) *ast.Paragraph
paragraph(q, before) ==
    paragraphFrom(line(IF Len(before) > 0 THEN pushback(q, before) ELSE q))

\* for p.next() == '#' { hdr.NThorpe++ }
RECURSIVE thorpes(_, _)
thorpes(q, n) ==
    IF next(q.b).r = "#" THEN thorpes(advance(q), n + 1) ELSE [p |-> advance(q), v |-> n]

\* hdr.Text = p.text('\n'); return &hdr
headerOf(n, x) == [p |-> x.p, v |-> Header(n, x.v)]

headerFrom(h) == headerOf(h.v, parserText(h.p, "\n"))

\* func (p *parser) header() *ast.Header
header(q) == headerFrom(thorpes(q, 1))

\* for p.next() == '`' { prefix += "`" }: the length of the opening fence
RECURSIVE fence(_, _)
fence(q, n) ==
    IF next(q.b).r = backtick THEN fence(advance(q), n + 1) ELSE [p |-> advance(q), v |-> n]

\* A closing test that accepts any fence of three backticks.
HasPrefixThree(l, n) == Len(l) >= 3 /\ \A k \in 1..3 : l[k] = backtick

\* strings.HasPrefix(l, prefix), prefix a run of n backticks
HasPrefix(l, n) == Len(l) >= n /\ \A k \in 1..n : l[k] = backtick

\* out = out[10:] when len(out) > 10: the excerpt of the error message
excerpt(out) == IF Len(out) > 10 THEN SubSeq(out, 11, Len(out)) ELSE out

\* if len(strings.TrimSpace(l[len(prefix):])) != 0 { p.errorf(...) }
fenceClose(q, l, n) ==
    IF Len(TrimSpace(SubSeq(l, n + 1, Len(l)))) # 0
    THEN errorf(q, "Cannot have text on the same line that a directive is terminated", l)
    ELSE q

\* The for loop of directive: buf is the raw body so far, x the line read.
RECURSIVE dirbody(_, _, _)
dirbody(x, n, buf) ==
    IF HasPrefix(TrimSuffix(x.v), n)
    THEN [p |-> fenceClose(x.p, TrimSuffix(x.v), n), v |-> buf]
    ELSE IF x.p.r = eof
    THEN [p |-> errorf(x.p, "Directive is not terminated", excerpt(buf)), v |-> buf]
    ELSE dirbody(line(x.p), n, buf \o TrimSuffix(x.v) \o <<"\n">>)

\* cmd := strings.TrimSuffix(p.line(nil), "\n"); if cmd != "" { cmd += "\n" }
command(l) == IF TrimSuffix(l) # <<>> THEN Append(TrimSuffix(l), "\n") ELSE <<>>

directiveOf(cmd, d) == [p |-> d.p, v |-> Directive(cmd, d.v)]

\* The directive after its command line c, opened by a fence of n backticks.
directiveBody(n, c) == directiveOf(command(c.v), dirbody(line(c.p), n, <<>>))

directiveFrom(f) == directiveBody(f.v, line(f.p))

\* After the second p.next() of directive.
directive2(q2) ==
    IF q2.r # backtick THEN paragraph(q2, <<backtick, backtick>>)
    ELSE directiveFrom(fence(q2, 3))

\* After the first p.next() of directive.
directive1(q1) ==
    IF q1.r # backtick THEN paragraph(q1, <<backtick>>) ELSE directive2(advance(q1))

\* func (p *parser) directive() ast.Stmt
directive(q) == directive1(advance(q))

\* A map that keeps the first source given for a label.
setCiteFirst(cite, label, src) ==
    [l \in DOMAIN cite \cup {label} |-> IF l \in DOMAIN cite THEN cite[l] ELSE src]

\* p.cite[label] = src
setCite(cite, label, src) ==
    [l \in DOMAIN cite \cup {label} |-> IF l = label THEN src ELSE cite[l]]

\* src := strings.TrimSuffix(p.line(nil), "\n"); p.cite[label] = src
citationOf(label, s) ==
    [p |-> [s.p EXCEPT !.cite = setCite(s.p.cite, label, TrimSuffix(s.v))],
     v |-> Citation(label, TrimSuffix(s.v))]

\* if p.next() != ':' { return p.paragraph("[" + label + "]") }
citationColon(label, q2) ==
    IF q2.r # ":" THEN paragraph(q2, <<"[">> \o label \o <<"]">>)
    ELSE citationOf(label, line(advance(q2)))

\* if p.r != ']' { return p.paragraph("[" + label) }
citationLabel(x) ==
    IF x.p.r # "]" THEN paragraph(x.p, <<"[">> \o x.v)
    ELSE citationColon(x.v, advance(x.p))

\* func (p *parser) citation() ast.Stmt
citation(q) == citationLabel(str(advance(q), "label"))

\* for p.r == '\t' { li.NTab++; p.next() }
RECURSIVE tabs(_, _)
tabs(q, n) == IF q.r = "\t" THEN tabs(advance(q), n + 1) ELSE [p |-> q, v |-> n]

\* for i := 0; i < li.NTab; i++ { li.Text.Body += "\t" }
tabText(n) == [k \in 1..n |-> "\t"]

ListItem(ntab, label, txt) == [NTab |-> ntab, Label |-> label, Text |-> txt]

\* The loop of listItem with the lines of an item joined without a space.
RECURSIVE itemLinesNoSpace(_, _)
itemLinesNoSpace(x, ln) ==
    IF Len(TrimSpace(TrimSuffix(x.v))) = 0 \/ TrimSpace(TrimSuffix(x.v))[1] = "-"
    THEN [p |-> x.p, v |-> ln \o <<RuneError>> \o TrimSuffix(x.v) \o <<"\n">>]
    ELSE itemLinesNoSpace(line(x.p), ln \o TrimSuffix(x.v))

\* The loop of listItem that joins the lines of one item: ln is the text so
\* far, x the line read.
RECURSIVE itemLines(_, _)
itemLines(x, ln) ==
    IF Len(TrimSpace(TrimSuffix(x.v))) = 0 \/ TrimSpace(TrimSuffix(x.v))[1] = "-"
    THEN [p |-> x.p, v |-> ln \o <<RuneError>> \o TrimSuffix(x.v) \o <<"\n">>]
    ELSE itemLines(line(x.p), ln \o <<" ">> \o TrimSuffix(x.v))

itemOf(ntab, label, x) == [p |-> x.p, notList |-> FALSE, v |-> ListItem(ntab, label, x.v)]

\* rdr := io.MultiReader(strings.NewReader(ln+string(p.r)), p.b); li.Text = p.text(eof)
itemText(ntab, label, it) == itemOf(ntab, label, parserText(pushback(it.p, it.v), eof))

\* ln := strings.TrimSuffix(p.line(nil), "\n") and the lines joined to it
itemFrom(ntab, label, ln) == itemText(ntab, label, itemLines(line(ln.p), TrimSuffix(ln.v)))

\* if p.r != ']' { p.errorf(...) }; p.next()
labelClose(lab) ==
    [p |-> advance(IF lab.p.r # "]"
                   THEN errorf(lab.p, "List item's label does not have a closing bracket",
                               <<"[">> \o lab.v)
                   ELSE lab.p),
     v |-> lab.v]

\* if p.r == '[' { p.next(); li.Label = p.str(...); ... }
itemLabel(q1) ==
    IF q1.r = "[" THEN labelClose(str(advance(q1), "label")) ELSE [p |-> q1, v |-> <<>>]

itemLabelled(ntab, lab) == itemFrom(ntab, lab.v, line(lab.p))

notListItem(q, ntab, body) ==
    [p |-> q, notList |-> TRUE, v |-> ListItem(ntab, <<>>, [Body |-> body, Format |-> <<>>])]

\* The rejected text without the tabs the line starts with.
itemDashNoTabs(ntab, q1) ==
    IF q1.r = "-" THEN notListItem(q1, ntab, <<"-">>)
    ELSE itemLabelled(ntab, itemLabel(q1))

\* After the p.next() that follows the '-'.
itemDash(ntab, q1) ==
    IF q1.r = "-" THEN notListItem(q1, ntab, Append(tabText(ntab), "-"))
    ELSE itemLabelled(ntab, itemLabel(q1))

itemTabs(t) ==
    IF t.p.r # "-" THEN notListItem(t.p, t.v, tabText(t.v))
    ELSE itemDash(t.v, advance(t.p))

\* func (p *parser) listItem() (ast.ListItem, error): notList tells the error
listItem(q) == itemTabs(tabs(q, 0))

\* for e != notList { li, e = p.listItem(); ...; l.Items = append(l.Items, li) }
\* x is the result of the last listItem.
RECURSIVE listItems(_, _)
listItems(x, items) ==
    IF x.notList THEN [p |-> x.p, items |-> items, li |-> x.v]
    ELSE listItems(listItem(x.p), Append(items, x.v))

RECURSIVE stmt(_)

\* The statement after the list: the rejected text is read again.
listRest(q, body) ==
    IF Len(body) > 0
    THEN IF body[1] = "-" THEN paragraph(q, body) ELSE stmt(pushback(q, body))
    ELSE stmt(q)

listOf(items, nxt) == [p |-> nxt.p, l |-> ListStmt(items), st |-> nxt.v]

listFrom(x) == listOf(x.items, listRest(x.p, x.li.Text.Body))

\* func (p *parser) list() (*ast.List, ast.Stmt): l and the statement after it
list(q) == listFrom(listItems(listItem(q), <<>>))

\* l, st := p.list(); if l.Items == nil { return st }; p.st = st; return l
stmtList(x) ==
    IF x.l.Items = <<>> THEN [p |-> x.p, v |-> x.st]
    ELSE [p |-> [x.p EXCEPT !.st = x.st], v |-> x.l]

\* func (p *parser) stmt() ast.Stmt
stmt(q) ==
    IF q.st # NoStmt THEN [p |-> [q EXCEPT !.st = NoStmt], v |-> q.st]
    ELSE CASE q.r = "#"      -> header(q)
           [] q.r = backtick -> directive(q)
           [] q.r = "["      -> citation(q)
           [] q.r = "-"      -> stmtList(list(q))
           [] OTHER          -> paragraph(q, <<>>)

----------------------------------------------------------------------------
(* Inputs                                                                  *)

\* All sequences over S of length at most n.
Seqs(S, n) == UNION {[1..k -> S] : k \in 0..n}

MaxCiteLen == 6
MaxRawLen == 6
MaxEmphLen == 9
MaxMixLen == 6
MaxRawCiteLen == 5

CiteAlphabet == {"[", "]", "(", ")", "_"}
RawAlphabet == {backtick, "*", "\\", "a"}
EmphAlphabet == {"*", "a"}
MixAlphabet == {"*", "-", "_", "a"}
RawCiteAlphabet == {backtick, "[", "]", "*"}

\* The inputs of overlapSmall (parse_test.go).
overlapSmall ==
    {
      <<"a", "b", "c", "*", "*", "*", "d", "e", "f", "_", "g", "h", "i", "*", "*", "*", "j", "k", "l", "_">>,
      <<"*", "a", "a", "*", "*", "b", "b", "b", "*", "*", "*", "c", "*", "d", "d", "d", "d", "*", "*", "e", "e", "*", "*", "*">>,
      <<"*", "*", "a", "_", "b", "b", "b", "-", "-", "c", "c", "*", "*", "d", "d", "d", "d", "_", "e", "-", "-">>,
      <<"*", "a", backtick, "b", "*", "c", backtick, "d", "*">>,
      <<"*", "a", "[", "*", "a", backtick, "b", "*", "c", backtick, "d", "*", "]", "b", "*">>,
      <<"*", "a", "[", "*", "a", backtick, "b", "*", "c", backtick, "d", "*", "]", "(", "u", "r", "l", ")", "b", "*">>,
      <<backtick, "[", backtick, "]", backtick>>,
      <<"_", "h", "i", "[", "_", "h", "e", "l", "l", "o", "_", "]", "b", "y", "e", "_">>
    }

\* Citations of escapeSmall (parse_test.go) with their words shortened, and
\* texts in which a citation follows one that a "]" has resolved.
citeSmall ==
    {
      <<"[", "a", "]", "\\", "(", "b", ")">>,
      <<"[", "a", "]", "(", "b", "\\", ")">>,
      <<"[", "]", "(", "]", "[", "_", "]", "(">>,
      <<"[", "]", "(", "]", "_", "[", "]", "(">>,
      <<"[", "_", "]", "(", "]", "[", "]", "(">>
    }

TextInputs ==
    Seqs(CiteAlphabet, MaxCiteLen) \cup Seqs(RawAlphabet, MaxRawLen) \cup citeSmall
        \cup Seqs(EmphAlphabet, MaxEmphLen) \cup Seqs(MixAlphabet, MaxMixLen)
        \cup Seqs(RawCiteAlphabet, MaxRawCiteLen) \cup overlapSmall

----------------------------------------------------------------------------
(* SpecText: parser.text on the reader Parse builds for a paragraph body   *)

\* No Generator has been made.
IdleGen ==
    /\ g = <<>>
    /\ pw = <<>>
    /\ run = <<>>
    /\ gopc = "idle"
    /\ cpc = "idle"
    /\ ret = <<>>
    /\ waits = 0

\* No Genner has been read.
IdleRead ==
    /\ gr = <<>>
    /\ sb = <<>>
    /\ wt = <<>>
    /\ rd = <<>>

\* No Generator is running.
IdleRun ==
    /\ sw = <<>>
    /\ th = <<>>
    /\ loop = <<>>
    /\ sink = <<>>

\* No Text is being rendered.
IdleHtml ==
    /\ hpc = "idle"
    /\ ht = <<>>
    /\ rep = <<>>
    /\ fx = <<>>

IdleParse ==
    /\ input = <<>>
    /\ pc = "idle"
    /\ p = [r |-> eof, b |-> <<>>, st |-> NoStmt, cite |-> <<>>, errors |-> <<>>, panic |-> FALSE]
    /\ List = <<>>
    /\ pre = <<>>
    /\ mi = 0
    /\ fi = 0
    /\ err = <<>>
    /\ must = <<>>

\* rdr := io.MultiReader(strings.NewReader(pi.Body+string(eof)+string(p.r)), p.b)
\* with p.r = eof and p.b exhausted, as the statement loop leaves them.
bodyReader(body, r, b) == body \o <<RuneError, RuneStr(r)>> \o b

TextInit ==
    /\ tin \in TextInputs
    /\ tpc = "tok"
    /\ ts = LET nx == next(bodyReader(tin, eof, <<>>)) IN textEntry(nx.r, nx.b)
    /\ tok0 = <<>>
    /\ cs = passEntry(<<>>)
    /\ IdleParse
    /\ IdleGen
    /\ IdleRead
    /\ IdleRun
    /\ IdleHtml

\* One iteration of the tokenizer loop of text(eof).
TokStep ==
    /\ tpc = "tok"
    /\ ts.r # eof
    /\ ts' = tokenStep(ts)
    /\ UNCHANGED <<tpc, tin, tok0, cs>>
    /\ UNCHANGED pvars
    /\ UNCHANGED <<gvars, rvars, svars, hvars>>

\* The loop condition fails: p.next(), and the passes start on the tokens.
TokEnd ==
    /\ tpc = "tok"
    /\ ts.r = eof
    /\ ts' = LET nx == next(ts.b) IN [ts EXCEPT !.r = nx.r, !.b = nx.b]
    /\ tok0' = ts.tokens
    /\ cs' = passEntry(ts.tokens)
    /\ tpc' = "raw"
    /\ UNCHANGED tin
    /\ UNCHANGED pvars
    /\ UNCHANGED <<gvars, rvars, svars, hvars>>

RawPass ==
    /\ tpc = "raw"
    /\ cs' = rawPass(cs)
    /\ tpc' = "cite"
    /\ UNCHANGED <<tin, ts, tok0>>
    /\ UNCHANGED pvars
    /\ UNCHANGED <<gvars, rvars, svars, hvars>>

CitePass ==
    /\ tpc = "cite"
    /\ cs' = citePass(cs)
    /\ tpc' = IF cs'.panic THEN "panic" ELSE "low"
    /\ UNCHANGED <<tin, ts, tok0>>
    /\ UNCHANGED pvars
    /\ UNCHANGED <<gvars, rvars, svars, hvars>>

LastPass ==
    /\ tpc = "low"
    /\ cs' = lastPass(cs)
    /\ tpc' = "done"
    /\ UNCHANGED <<tin, ts, tok0>>
    /\ UNCHANGED pvars
    /\ UNCHANGED <<gvars, rvars, svars, hvars>>

TextNext == TokStep \/ TokEnd \/ RawPass \/ CitePass \/ LastPass

SpecText == TextInit /\ [][TextNext]_vars

----------------------------------------------------------------------------
(* Parse                                                                   *)

\* copy(f.List[k:], f.List[k+1:]); f.List = f.List[:len(f.List)-1]   (k a Go index)
deleteAt(L, k) == SubSeq(L, 1, k) \o SubSeq(L, k + 2, Len(L))

isParagraph(s) == s.type = "Paragraph"

\* strings.TrimSpace(pi.Body) == ""
blank(s) == TrimSpace(s.Body) = <<>>

\* A merge step that leaves the list as it is.
mergeKeep(L, i) == [List |-> L, i |-> i + 1]

\* A merge step that deletes blank paragraphs and joins none.
mergeNoJoin(L, i) ==
    LET di == isParagraph(L[i + 1]) /\ blank(L[i + 1])
        dj == isParagraph(L[i + 2]) /\ blank(L[i + 2])
        L1 == IF di THEN deleteAt(L, i) ELSE L
        s1 == IF di THEN 1 ELSE 0
        L2 == IF dj THEN deleteAt(L1, i + 1 - s1) ELSE L1
        s2 == IF dj THEN s1 + 1 ELSE s1
    IN  [List |-> L2, i |-> i - s2 + 1]

\* One iteration of the loop that combines consecutive paragraphs, for
\* 0 <= i and j = i + 1 < len(f.List): the list and i after the i+1, j+1
\* of the loop header.
mergeStep(L, i) ==
    LET pi == L[i + 1]
        pj == L[i + 2]
        di == isParagraph(pi) /\ blank(pi)
        dj == isParagraph(pj) /\ blank(pj)
        L1 == IF di THEN deleteAt(L, i) ELSE L
        s1 == IF di THEN 1 ELSE 0
        L2 == IF dj THEN deleteAt(L1, i + 1 - s1) ELSE L1
        s2 == IF dj THEN s1 + 1 ELSE s1
    IN  IF s2 > 0 THEN [List |-> L2, i |-> i - s2 + 1]
        ELSE IF isParagraph(pi) /\ isParagraph(pj)
        THEN [List |-> deleteAt([L EXCEPT ![i + 1] = Paragraph(pi.Body \o pj.Body, pi.Format)],
                                i + 1),
              i |-> i]
        ELSE [List |-> L, i |-> i + 1]

\* The body of `for i := range f.List` for a paragraph: text(eof) on the
\* body, read through a reader placed in front of p.b.
formatOf(x) == [p |-> x.p, v |-> Paragraph(x.v.Body, x.v.Format)]

formatStep(q, s) ==
    formatOf(parserText(advance([q EXCEPT !.b = bodyReader(s.Body, q.r, q.b)]), eof))

\* err of Parse: nil, or errors.New of the messages in order
NoError == [nil |-> TRUE, msgs |-> <<>>]

\* The text written to es: e.Error() and a newline for every e of p.errors.
newline == [msg |-> "\n", arg |-> <<>>]

RECURSIVE errorString(_)
errorString(errors) ==
    IF errors = <<>> THEN <<>>
    ELSE <<Head(errors), newline>> \o errorString(Tail(errors))

\* An error that carries the last message only.
parseErrorLast(errors) ==
    IF Len(errors) > 0
    THEN [nil |-> FALSE, msgs |-> <<errors[Len(errors)], newline>>]
    ELSE NoError

\* if len(p.errors) > 0 { err = errors.New(es.String()) }
parseError(errors) ==
    IF Len(errors) > 0 THEN [nil |-> FALSE, msgs |-> errorString(errors)] ELSE NoError

\* MustParse before Parse has returned to it.
Running == [state |-> "running"]

\* if err != nil { panic("Parse error: " + err.Error()) }; return f
mustParse(f, e) ==
    IF ~e.nil
    THEN [state |-> "panic",
          value |-> <<[msg |-> "Parse error: ", arg |-> <<>>]>> \o e.msgs]
    ELSE [state |-> "returned", file |-> f]

MaxParaLen == 6
MaxBlockLen == 5
MaxDocLen == 5
MaxListLen == 5
MaxHeaderLen == 5
MaxFence == 4
MaxDirLines == 2
MaxCiteLines == 2
MaxBefore == 2
MaxAfter == 2
MaxReplayLen == 3
MaxTabs == 2
MaxDashRest == 2

ParaAlphabet == {"a", " ", "\n"}
BlockAlphabet == {"[", "]", "(", "a"}
DocAlphabet == {"a", " ", "\n", "-", "#"}
ListAlphabet == {"a", " ", "\n", "-", "\t"}
HeaderAlphabet == {"#", "a", "\\", "\n"}
ReplayAlphabet == {"a", "]", "\\", ":", "\n"}

\* First line.\nSecond line.  and the other inputs of combineParagraph
\* (parse_test.go), with one-letter lines.
combineParagraph ==
    { <<"F", "\n", "S">>,
      <<"\n", "F", "\n", "S">>,
      <<"F", "\n", "\n", "S">>,
      <<"F", "\n", "S", "\n", "-", " ", "l">> }

\* The inputs of combineListItem (parse_test.go), with one-letter words.
combineListItem ==
    { <<"-", " ", "S", "\n", "-", " ", "T", "\n", "o", "\n", "l", "\n", "-", " ", "E">>,
      <<"-", " ", "S", "\n", "-", " ", "T", "\n", "o", "\n", "l", "\n", "\n", "-", " ", "P">>,
      <<"-", " ", "S", "\n", "-", " ", "T", "\n", "o", "\n", "l", "\n", "-", "\n", "-", " ", "C">> }

\* The documents that start with a hyphen.
ListInputs == {<<"-">> \o s : s \in Seqs(ListAlphabet, MaxListLen)}

\* The documents that start with a thorpe.
HeaderInputs == {<<"#">> \o s : s \in Seqs(HeaderAlphabet, MaxHeaderLen)}

\* A run of n backticks.
ticks(n) == [k \in 1..n |-> backtick]

\* The lines after the opening line of a directive: plain, blank, fences
\* shorter and longer than the opening one, an indented fence and a fence
\* with text after it.
DirLines ==
    {<<>>, <<"a">>, <<" ">> \o ticks(3), ticks(3) \o <<"a">>}
        \cup {ticks(n) : n \in 2..MaxFence}

\* The lines ls, each ended by a newline.
RECURSIVE withNewlines(_)
withNewlines(ls) ==
    IF ls = <<>> THEN <<>> ELSE Head(ls) \o <<"\n">> \o withNewlines(Tail(ls))

\* Documents that open a directive: a fence of 3..MaxFence backticks, an
\* optional command, up to MaxDirLines full lines and a last line that no
\* newline ends.
DirectiveInputs ==
    {ticks(n) \o cmd \o <<"\n">> \o withNewlines(body) \o last :
        n \in 3..MaxFence, cmd \in {<<>>, <<"a">>},
        body \in Seqs(DirLines, MaxDirLines), last \in DirLines}

\* Lines of a document that defines citations: two sources for one label,
\* a second label, a label with no source, a bracket never closed, text.
CiteLines ==
    {<<"[", "a", "]", ":", "a">>, <<"[", "a", "]", ":", "b">>,
     <<"[", "b", "]", ":", "a">>, <<"[", "a", "]">>, <<"[", "a">>, <<"a">>}

\* Up to MaxCiteLines full lines and a last line that no newline ends.
CitationInputs ==
    {withNewlines(body) \o last :
        body \in Seqs(CiteLines, MaxCiteLines), last \in CiteLines \cup {<<>>}}

\* Documents with one byte sequence that does not decode, read as U+FFFD:
\* up to MaxBefore characters before it and up to MaxAfter after it, the
\* letter b only after it.
DecodeInputs ==
    {before \o <<RuneError>> \o after :
        before \in Seqs({"a", "\n", "#", "-"}, MaxBefore),
        after \in Seqs({"b", "\n"}, MaxAfter)}

\* The documents that start with a left bracket: labels closed and not
\* closed, with and without a colon after them, with backslashes.
ReplayInputs == {<<"[">> \o s : s \in Seqs(ReplayAlphabet, MaxReplayLen)}

\* The documents with a line that two hyphens start after up to MaxTabs
\* tabs: the first line, or the line after a list of one item.
DashInputs ==
    {before \o tabText(n) \o <<"-", "-">> \o rest :
        before \in {<<>>, <<"-", " ", "a", "\n">>}, n \in 0..MaxTabs,
        rest \in Seqs({"a", "\n"}, MaxDashRest)}

ParseInputs ==
    ReplayInputs \cup DashInputs \cup Seqs(ParaAlphabet, MaxParaLen) \cup Seqs(BlockAlphabet, MaxBlockLen)
        \cup Seqs(DocAlphabet, MaxDocLen) \cup ListInputs \cup HeaderInputs
        \cup DirectiveInputs \cup CitationInputs \cup DecodeInputs
        \cup combineParagraph \cup combineListItem \cup overlapSmall

IdleText ==
    /\ tpc = "idle"
    /\ tin = <<>>
    /\ ts = textEntry(eof, <<>>)
    /\ tok0 = <<>>
    /\ cs = passEntry(<<>>)

\* p := &parser{...}; f = &ast.File{List: []ast.Stmt{}}
Init ==
    /\ input \in ParseInputs
    /\ pc = "start"
    /\ p = [r |-> "U+0000", b |-> input, st |-> NoStmt, cite |-> <<>>,
            errors |-> <<>>, panic |-> FALSE]
    /\ List = <<>>
    /\ pre = <<>>
    /\ mi = 0
    /\ fi = 0
    /\ err = NoError
    /\ must = Running
    /\ IdleText
    /\ IdleGen
    /\ IdleRead
    /\ IdleRun
    /\ IdleHtml

\* p.next() before the statement loop
Start ==
    /\ pc = "start"
    /\ p' = advance(p)
    /\ pc' = "stmt"
    /\ UNCHANGED <<input, List, pre, mi, fi, err, must>>
    /\ UNCHANGED tvars
    /\ UNCHANGED <<gvars, rvars, svars, hvars>>

\* f.List = append(f.List, x), x the statement and the parser p.stmt() left
Appended(x) ==
    /\ p' = x.p
    /\ List' = Append(List, x.v)
    /\ pc' = IF x.p.panic THEN "panic" ELSE "stmt"

\* for p.r != eof || p.st != nil { f.List = append(f.List, p.stmt()) }
Stmt ==
    /\ pc = "stmt"
    /\ p.r # eof \/ p.st # NoStmt
    /\ Appended(stmt(p))
    /\ UNCHANGED <<input, pre, mi, fi, err, must>>
    /\ UNCHANGED tvars
    /\ UNCHANGED <<gvars, rvars, svars, hvars>>

\* The statement loop ends: f.Cite = p.cite; i, j := 0, 1
StmtsDone ==
    /\ pc = "stmt"
    /\ ~(p.r # eof \/ p.st # NoStmt)
    /\ pre' = List
    /\ mi' = 0
    /\ pc' = "merge"
    /\ UNCHANGED <<input, p, List, fi, err, must>>
    /\ UNCHANGED tvars
    /\ UNCHANGED <<gvars, rvars, svars, hvars>>

Merged(x) == List' = x.List /\ mi' = x.i

\* One iteration of the merge loop; f.List[i] with i < 0 panics.
Merge ==
    /\ pc = "merge"
    /\ mi < Len(List) /\ mi + 1 < Len(List)
    /\ IF mi < 0
       THEN /\ pc' = "panic"
            /\ p' = [p EXCEPT !.panic = TRUE]
            /\ UNCHANGED <<List, mi>>
       ELSE /\ Merged(mergeStep(List, mi))
            /\ UNCHANGED <<pc, p>>
    /\ UNCHANGED <<input, pre, fi, err, must>>
    /\ UNCHANGED tvars
    /\ UNCHANGED <<gvars, rvars, svars, hvars>>

MergeDone ==
    /\ pc = "merge"
    /\ ~(mi < Len(List) /\ mi + 1 < Len(List))
    /\ fi' = 0
    /\ pc' = "format"
    /\ UNCHANGED <<input, p, List, pre, mi, err, must>>
    /\ UNCHANGED tvars
    /\ UNCHANGED <<gvars, rvars, svars, hvars>>

\* pi.Body = txt.Body; pi.Format = txt.Format
Formatted(x) ==
    /\ p' = x.p
    /\ List' = [List EXCEPT ![fi + 1] = x.v]
    /\ pc' = IF x.p.panic THEN "panic" ELSE "format"

\* for i := range f.List: the formats of one statement
Format ==
    /\ pc = "format"
    /\ fi < Len(List)
    /\ IF isParagraph(List[fi + 1])
       THEN Formatted(formatStep(p, List[fi + 1]))
       ELSE UNCHANGED <<p, List, pc>>
    /\ fi' = fi + 1
    /\ UNCHANGED <<input, pre, mi, err, must>>
    /\ UNCHANGED tvars
    /\ UNCHANGED <<gvars, rvars, svars, hvars>>

\* return f, err
Return ==
    /\ pc = "format"
    /\ fi >= Len(List)
    /\ err' = parseError(p.errors)
    /\ pc' = "done"
    /\ UNCHANGED <<input, p, List, pre, mi, fi, must>>
    /\ UNCHANGED tvars
    /\ UNCHANGED <<gvars, rvars, svars, hvars>>

\* f.Cite = p.cite, nil until the statement loop has ended; a Go map is a
\* reference, so f.Cite and p.cite are one map from then on.
fCite == IF pc \in {"start", "stmt"} THEN <<>> ELSE p.cite

\* The ast.File Parse returns.
File == [List |-> List, Cite |-> fCite]

\* func MustParse, from the return of its call of Parse on
MustParse ==
    /\ pc = "done"
    /\ must = Running
    /\ must' = mustParse(File, err)
    /\ UNCHANGED <<input, pc, p, List, pre, mi, fi, err>>
    /\ UNCHANGED tvars
    /\ UNCHANGED <<gvars, rvars, svars, hvars>>

Next ==
    Start \/ Stmt \/ StmtsDone \/ Merge \/ MergeDone \/ Format \/ Return \/ MustParse

Spec == Init /\ [][Next]_vars

-----------------------------------------------------------------------------
(* Generator: Start, Wait and the pipes of gen/html                        *)
(* The caller is ExampleGenerator_StdoutPipe or ExampleGenerator_StderrPipe:*)
(* take a pipe, Start, read the pipe to end-of-file, Wait.                  *)

MaxWrites == 3
MaxWaits == 1

\* html.Gen(file): only the file is set. g.gen() will write run.writes
\* chunks to the pipe and return run.err.
GenInit ==
    /\ g = [Stdout |-> "nil", Stderr |-> "nil", waitdone |-> "nil",
            m |-> "unlocked", pipes |-> <<>>]
    /\ pw = [data |-> FALSE, closed |-> FALSE]
    /\ run \in [writes : 0..MaxWrites, err : {"nil", "error"}]
    /\ gopc = "idle"
    /\ cpc = "pipe"
    /\ ret = "none"
    /\ waits = 0
    /\ IdleText
    /\ IdleParse
    /\ IdleRead
    /\ IdleRun
    /\ IdleHtml

\* func (g *Generator) StdoutPipe
StdoutPipe ==
    /\ cpc = "pipe"
    /\ g.Stdout = "nil"
    /\ g' = [g EXCEPT !.Stdout = "pw", !.pipes = Append(@, "pw")]
    /\ cpc' = "start"
    /\ UNCHANGED <<pw, run, gopc, ret, waits>>
    /\ UNCHANGED <<tvars, pvars, rvars, svars, hvars>>

\* func (g *Generator) StderrPipe
StderrPipe ==
    /\ cpc = "pipe"
    /\ g.Stderr = "nil"
    /\ g' = [g EXCEPT !.Stderr = "pw", !.pipes = Append(@, "pw")]
    /\ cpc' = "start"
    /\ UNCHANGED <<pw, run, gopc, ret, waits>>
    /\ UNCHANGED <<tvars, pvars, rvars, svars, hvars>>

\* if g.Stdout == nil { g.Stdout = ioutil.Discard }
orDiscard(w) == IF w = "nil" THEN "Discard" ELSE w

\* func (g *Generator) Start: the writers, the channel, the go statement
GeneratorStart ==
    /\ cpc = "start"
    /\ g' = [g EXCEPT !.Stdout = orDiscard(@), !.Stderr = orDiscard(@),
                      !.waitdone = "open"]
    /\ gopc' = "gen"
    /\ cpc' = "read"
    /\ UNCHANGED <<pw, run, ret, waits>>
    /\ UNCHANGED <<tvars, pvars, rvars, svars, hvars>>

\* g.gen() calls Write on the pipe: the chunk is handed over and Write blocks
genWrite ==
    /\ gopc = "gen"
    /\ run.writes > 0
    /\ ~pw.data
    /\ pw' = [pw EXCEPT !.data = TRUE]
    /\ gopc' = "write"
    /\ UNCHANGED <<g, run, cpc, ret, waits>>
    /\ UNCHANGED <<tvars, pvars, rvars, svars, hvars>>

\* Write returns once the reader has taken the chunk
genWritten ==
    /\ gopc = "write"
    /\ ~pw.data
    /\ run' = [run EXCEPT !.writes = @ - 1]
    /\ gopc' = "gen"
    /\ UNCHANGED <<g, pw, cpc, ret, waits>>
    /\ UNCHANGED <<tvars, pvars, rvars, svars, hvars>>

\* err := g.gen() has returned; for _, p := range g.pipes { p.Close() }
pipesClose ==
    /\ gopc = "gen"
    /\ run.writes = 0
    /\ pw' = [pw EXCEPT !.closed = g.pipes # <<>>]
    /\ gopc' = "lock"
    /\ UNCHANGED <<g, run, cpc, ret, waits>>
    /\ UNCHANGED <<tvars, pvars, rvars, svars, hvars>>

\* g.m.Lock() in the goroutine
goLock ==
    /\ gopc = "lock"
    /\ g.m = "unlocked"
    /\ g' = [g EXCEPT !.m = "goroutine"]
    /\ gopc' = "locked"
    /\ UNCHANGED <<pw, run, cpc, ret, waits>>
    /\ UNCHANGED <<tvars, pvars, rvars, svars, hvars>>

\* g.pipes = nil; g.m.Unlock()
pipesNil ==
    /\ gopc = "locked"
    /\ g' = [g EXCEPT !.pipes = <<>>, !.m = "unlocked"]
    /\ gopc' = "send"
    /\ UNCHANGED <<pw, run, cpc, ret, waits>>
    /\ UNCHANGED <<tvars, pvars, rvars, svars, hvars>>

\* ioutil.ReadAll(stdout): a Read that takes the chunk written
Read ==
    /\ cpc = "read"
    /\ pw.data
    /\ pw' = [pw EXCEPT !.data = FALSE]
    /\ UNCHANGED <<g, run, gopc, cpc, ret, waits>>
    /\ UNCHANGED <<tvars, pvars, rvars, svars, hvars>>

\* ioutil.ReadAll(stdout): the Read that finds the write end closed, io.EOF
ReadEOF ==
    /\ cpc = "read"
    /\ ~pw.data
    /\ pw.closed
    /\ cpc' = "wait"
    /\ UNCHANGED <<g, pw, run, gopc, ret, waits>>
    /\ UNCHANGED <<tvars, pvars, rvars, svars, hvars>>

\* func (g *Generator) Wait: g.waitdone != nil; g.m.Lock()
WaitLock ==
    /\ cpc = "wait"
    /\ g.waitdone # "nil"
    /\ g.m = "unlocked"
    /\ g' = [g EXCEPT !.m = "caller"]
    /\ cpc' = "locked"
    /\ UNCHANGED <<pw, run, gopc, ret, waits>>
    /\ UNCHANGED <<tvars, pvars, rvars, svars, hvars>>

\* if g.pipes != nil { g.m.Unlock(); return fmt.Errorf(...) }
WaitPipes ==
    /\ cpc = "locked"
    /\ g.pipes # <<>>
    /\ g' = [g EXCEPT !.m = "unlocked"]
    /\ ret' = "all reads from the pipe have not completed"
    /\ cpc' = "returned"
    /\ UNCHANGED <<pw, run, gopc, waits>>
    /\ UNCHANGED <<tvars, pvars, rvars, svars, hvars>>

\* g.m.Unlock() with g.pipes == nil, on to the receive
WaitUnlock ==
    /\ cpc = "locked"
    /\ g.pipes = <<>>
    /\ g' = [g EXCEPT !.m = "unlocked"]
    /\ cpc' = "receive"
    /\ UNCHANGED <<pw, run, gopc, ret, waits>>
    /\ UNCHANGED <<tvars, pvars, rvars, svars, hvars>>

\* g.waitdone <- err in the goroutine meets err := <-g.waitdone in Wait;
\* Wait closes the channel and returns err
waitdone ==
    /\ gopc = "send"
    /\ cpc = "receive"
    /\ g' = [g EXCEPT !.waitdone = "closed"]
    /\ ret' = run.err
    /\ gopc' = "exit"
    /\ cpc' = "returned"
    /\ UNCHANGED <<pw, run, waits>>
    /\ UNCHANGED <<tvars, pvars, rvars, svars, hvars>>

\* err := <-g.waitdone on the channel an earlier Wait has closed receives
\* nil at once, and close(g.waitdone) panics: close of closed channel
closeClosed ==
    /\ cpc = "receive"
    /\ g.waitdone = "closed"
    /\ cpc' = "panic"
    /\ UNCHANGED <<g, pw, run, gopc, ret, waits>>
    /\ UNCHANGED <<tvars, pvars, rvars, svars, hvars>>

\* Wait has returned and the caller calls it again
WaitAgain ==
    /\ cpc = "returned"
    /\ waits < MaxWaits
    /\ waits' = waits + 1
    /\ cpc' = "wait"
    /\ UNCHANGED <<g, pw, run, gopc, ret>>
    /\ UNCHANGED <<tvars, pvars, rvars, svars, hvars>>

GenNext ==
    \/ StdoutPipe \/ StderrPipe \/ GeneratorStart
    \/ genWrite \/ genWritten \/ pipesClose \/ goLock \/ pipesNil
    \/ Read \/ ReadEOF \/ WaitLock \/ WaitPipes \/ WaitUnlock \/ waitdone
    \/ closeClosed \/ WaitAgain

SpecGen == GenInit /\ [][GenNext]_vars

-----------------------------------------------------------------------------
(* Genner: Read, its goroutine and the syncBuffer between them             *)
(* The reader calls Read until it returns io.EOF or another error.          *)

MaxChunks == 3
MaxP == 2

\* &Genner{File: f}: WriteTo will write the chunks 1..total and return err;
\* the reader reads into a p of length len.
ReadInit ==
    /\ gr = [launched |-> FALSE, done |-> 0]
    /\ sb = [b |-> <<>>, err |-> "nil"]
    /\ \E total \in 0..MaxChunks, e \in {"nil", "error"} :
            wt = [pc |-> "idle", next |-> 1, total |-> total, err |-> e]
    /\ \E len \in 1..MaxP :
            rd = [pc |-> "call", len |-> len, n |-> 0, err |-> "nil", got |-> <<>>]
    /\ IdleText
    /\ IdleParse
    /\ IdleGen
    /\ IdleRun
    /\ IdleHtml

\* if !g.launched { g.launched = true; g.out = new(syncBuffer); go func() ... }
Launch ==
    /\ rd.pc = "call"
    /\ gr' = [gr EXCEPT !.launched = TRUE]
    /\ wt' = [wt EXCEPT !.pc = IF gr.launched THEN @ ELSE "write"]
    /\ rd' = [rd EXCEPT !.pc = "read"]
    /\ UNCHANGED sb
    /\ UNCHANGED <<tvars, pvars, gvars, svars, hvars>>

\* bytes.Buffer.Read into a p of length len: n, and io.EOF from an empty buffer
bufferRead(b, len) ==
    IF b = <<>> THEN [n |-> 0, err |-> "EOF"]
    ELSE [n |-> IF Len(b) < len THEN Len(b) ELSE len, err |-> "nil"]

\* func (s *syncBuffer) Read: n, err = s.b.Read(p); if s.err != nil { err = s.err }
syncRead(s, len) ==
    [n |-> bufferRead(s.b, len).n,
     err |-> IF s.err # "nil" THEN s.err ELSE bufferRead(s.b, len).err]

\* n, err = g.out.Read(p), under the read lock
outRead ==
    /\ rd.pc = "read"
    /\ rd' = [rd EXCEPT !.pc = "load",
                        !.n = syncRead(sb, rd.len).n,
                        !.err = syncRead(sb, rd.len).err,
                        !.got = @ \o SubSeq(sb.b, 1, syncRead(sb, rd.len).n)]
    /\ sb' = [sb EXCEPT !.b = SubSeq(@, syncRead(sb, rd.len).n + 1, Len(@))]
    /\ UNCHANGED <<gr, wt>>
    /\ UNCHANGED <<tvars, pvars, gvars, svars, hvars>>

\* if atomic.LoadUint32(&g.done) == 0 && err == io.EOF { err = nil }
notDone(done, e) == IF done = 0 /\ e = "EOF" THEN "nil" ELSE e

\* What the reader does with the err of Read: call again, or stop.
after(e) == IF e = "nil" THEN "call" ELSE IF e = "EOF" THEN "eof" ELSE "failed"

\* The test of g.done and the return of Read
ReadReturn ==
    /\ rd.pc = "load"
    /\ rd' = [rd EXCEPT !.err = notDone(gr.done, @), !.pc = after(notDone(gr.done, rd.err))]
    /\ UNCHANGED <<gr, sb, wt>>
    /\ UNCHANGED <<tvars, pvars, gvars, svars, hvars>>

\* A Write of WriteTo on g.out: func (s *syncBuffer) Write, under the lock
cwWrite ==
    /\ wt.pc = "write"
    /\ wt.next <= wt.total
    /\ sb' = [sb EXCEPT !.b = Append(@, wt.next)]
    /\ wt' = [wt EXCEPT !.next = @ + 1]
    /\ UNCHANGED <<gr, rd>>
    /\ UNCHANGED <<tvars, pvars, gvars, svars, hvars>>

\* g.WriteTo(g.out) has returned err; if err != nil { g.out.SetError(err) }
WriteToReturn ==
    /\ wt.pc = "write"
    /\ wt.next > wt.total
    /\ sb' = [sb EXCEPT !.err = wt.err]
    /\ wt' = [wt EXCEPT !.pc = "store"]
    /\ UNCHANGED <<gr, rd>>
    /\ UNCHANGED <<tvars, pvars, gvars, svars, hvars>>

\* atomic.StoreUint32(&g.done, 1)
StoreDone ==
    /\ wt.pc = "store"
    /\ gr' = [gr EXCEPT !.done = 1]
    /\ wt' = [wt EXCEPT !.pc = "exit"]
    /\ UNCHANGED <<sb, rd>>
    /\ UNCHANGED <<tvars, pvars, gvars, svars, hvars>>

ReadNext == Launch \/ outRead \/ ReadReturn \/ cwWrite \/ WriteToReturn \/ StoreDone

SpecRead == ReadInit /\ [][ReadNext]_vars

-----------------------------------------------------------------------------
(* Generator: the loop of gen, its writers and its context                 *)
(* Stdout and Stderr are one writer.  A statement is text, which gen writes *)
(* itself, or a directive with a command, whose standard output and error   *)
(* os/exec copies to cmd.Stdout and cmd.Stderr in a goroutine each.         *)

MaxStmts == 2
MaxCopy == 2

\* cw.Write("<p>"), g.text(&txt, cw), cw.Write("</p>")
TextWrites == 3

Threads == {"gen", "stdout", "stderr"}

\* A writer: the sink w, behind a syncWriter or not.
Writer(w, sync) == [w |-> w, sync |-> sync]

\* Gen(file) or GenContext(ctx, file), then g.Stdout = w; g.Stderr = w for
\* a writer w or for none.
RunInit ==
    /\ \E w \in {"nil", "buf"} :
            sw = [Stdout |-> Writer(w, FALSE), Stderr |-> Writer(w, FALSE), m |-> "unlocked"]
    /\ th = [t \in Threads |-> [pc |-> "idle", left |-> 0]]
    /\ \E L \in Seqs({"text", "cmd"}, MaxStmts), c \in {"TODO", "live"} :
            loop = [List |-> L, i |-> 0, ctx |-> c]
    /\ sink = [k \in 1..Len(loop.List) |-> 0]
    /\ IdleText
    /\ IdleParse
    /\ IdleGen
    /\ IdleRead
    /\ IdleHtml

\* Start with g.Stderr left as it was: only Stdout is wrapped.
syncStdoutOnly(G) ==
    IF G.Stdout = G.Stderr THEN [G EXCEPT !.Stdout = Writer(@.w, TRUE)] ELSE G

\* if g.Stdout == g.Stderr { g.Stdout = &syncWriter{w: g.Stdout}; g.Stderr = g.Stdout }
syncWriters(G) ==
    IF G.Stdout = G.Stderr
    THEN [G EXCEPT !.Stdout = Writer(@.w, TRUE), !.Stderr = Writer(G.Stdout.w, TRUE)]
    ELSE G

\* func (g *Generator) Start: the writers, then go func() { err := g.gen() ... }
RunStart ==
    /\ th["gen"].pc = "idle"
    /\ sw' = syncWriters([sw EXCEPT !.Stdout.w = orDiscard(@), !.Stderr.w = orDiscard(@)])
    /\ th' = [th EXCEPT !["gen"].pc = "select"]
    /\ loop' = [loop EXCEPT !.i = 1]
    /\ UNCHANGED sink
    /\ UNCHANGED <<tvars, pvars, gvars, rvars, hvars>>

\* The cancel function of g.ctx is called.
Cancel ==
    /\ loop.ctx = "live"
    /\ loop.i > 0
    /\ loop' = [loop EXCEPT !.ctx = "done"]
    /\ UNCHANGED <<sw, th, sink>>
    /\ UNCHANGED <<tvars, pvars, gvars, rvars, hvars>>

\* A select that never finds the context done.
ctxNever(c) == FALSE

\* case <-g.ctx.Done(): is ready
ctxDone(c) == c = "done"

\* cmd.Run() starts the process: the goroutines that copy its output
copiers(t, out, e) ==
    [t EXCEPT !["gen"].pc = "run",
              !["stdout"] = [pc |-> "write", left |-> out],
              !["stderr"] = [pc |-> "write", left |-> e]]

\* for i := range g.file.List { select { case <-g.ctx.Done(): return cw.err
\* default: switch t := g.file.List[i].(type)
genSelect ==
    /\ th["gen"].pc = "select"
    /\ IF loop.i > Len(loop.List) \/ ctxDone(loop.ctx)
       THEN th' = [th EXCEPT !["gen"].pc = "returned"]
       ELSE IF loop.List[loop.i] = "text"
       THEN th' = [th EXCEPT !["gen"] = [pc |-> "write", left |-> TextWrites]]
       ELSE \E out \in 0..MaxCopy, e \in 0..MaxCopy : th' = copiers(th, out, e)
    /\ UNCHANGED <<sw, loop, sink>>
    /\ UNCHANGED <<tvars, pvars, gvars, rvars, hvars>>

\* The writer a goroutine writes to: cw, over g.Stdout, or g.Stderr.
writerOf(t) == IF t = "stderr" THEN sw.Stderr ELSE sw.Stdout

\* func (s *syncWriter) Write: s.m.Lock(); or the call of w.Write itself
WriteCall(t) ==
    /\ th[t].pc = "write"
    /\ th[t].left > 0
    /\ writerOf(t).sync => sw.m = "unlocked"
    /\ sw' = [sw EXCEPT !.m = IF writerOf(t).sync THEN t ELSE @]
    /\ th' = [th EXCEPT ![t].pc = "inside"]
    /\ UNCHANGED <<loop, sink>>
    /\ UNCHANGED <<tvars, pvars, gvars, rvars, hvars>>

\* n, err = s.w.Write(p); return, with the deferred s.m.Unlock()
WriteReturn(t) ==
    /\ th[t].pc = "inside"
    /\ sink' = [sink EXCEPT ![loop.i] = @ + 1]
    /\ sw' = [sw EXCEPT !.m = IF @ = t THEN "unlocked" ELSE @]
    /\ th' = [th EXCEPT ![t] = [pc |-> "write", left |-> @.left - 1]]
    /\ UNCHANGED loop
    /\ UNCHANGED <<tvars, pvars, gvars, rvars, hvars>>

\* The statement is written: the next iteration of the loop of gen
genNext ==
    /\ th["gen"].pc = "write"
    /\ th["gen"].left = 0
    /\ th' = [th EXCEPT !["gen"].pc = "select"]
    /\ loop' = [loop EXCEPT !.i = @ + 1]
    /\ UNCHANGED <<sw, sink>>
    /\ UNCHANGED <<tvars, pvars, gvars, rvars, hvars>>

\* The process has closed its output, or exec.CommandContext has killed it:
\* the goroutine that copies ends.
copyEOF(t) ==
    /\ t # "gen"
    /\ th[t].pc = "write"
    /\ th[t].left = 0 \/ ctxDone(loop.ctx)
    /\ th' = [th EXCEPT ![t].pc = "done"]
    /\ UNCHANGED <<sw, loop, sink>>
    /\ UNCHANGED <<tvars, pvars, gvars, rvars, hvars>>

\* if err := cmd.Run(); err != nil { return err }
cmdRun ==
    /\ th["gen"].pc = "run"
    /\ th["stdout"].pc = "done"
    /\ th["stderr"].pc = "done"
    /\ \E e \in {"nil", "error"} :
          /\ th' = [th EXCEPT !["gen"].pc = IF e = "nil" THEN "select" ELSE "failed",
                              !["stdout"].pc = "idle", !["stderr"].pc = "idle"]
          /\ loop' = [loop EXCEPT !.i = IF e = "nil" THEN @ + 1 ELSE @]
    /\ UNCHANGED <<sw, sink>>
    /\ UNCHANGED <<tvars, pvars, gvars, rvars, hvars>>

RunNext ==
    \/ RunStart \/ Cancel \/ genSelect \/ genNext \/ cmdRun
    \/ \E t \in Threads : WriteCall(t) \/ WriteReturn(t) \/ copyEOF(t)

SpecRun == RunInit /\ [][RunNext]_vars

----------------------------------------------------------------------------
(* Properties of Parse and of parser.text                                  *)

\* The state in which text(eof) has returned its ast.Text.
textDone == tpc = "done"

\* The state in which Parse has returned f and err.
parseDone == pc = "done"

\* C1: for every input Parse returns normally; neither the loop that
\* combines paragraphs nor a pass of text indexes out of range.
ParseNeverPanics == pc # "panic"

\* C2: every Format of a returned ast.Text has Beg < End, and Beg and End
\* are offsets of code points of the returned Body.
SpansWellFormed ==
    textDone =>
        \A k \in 1..Len(cs.format) :
            /\ cs.format[k].Beg < cs.format[k].End
            /\ 0 <= cs.format[k].Beg
            /\ cs.format[k].End < Len(ts.buf)

\* The offsets, in the unescaped body, of the backticks of s that no
\* backslash precedes: a backslash takes the character after it with it,
\* and stands in the body unless that character is escapable outside raw
\* text.  i is the index into s, pos the offset in the body.
RECURSIVE backticksFrom(_, _, _, _)
backticksFrom(s, i, pos, raw) ==
    IF i > Len(s) THEN <<>>
    ELSE IF s[i] = "\\"
    THEN backticksFrom(s, i + 2,
                       IF i < Len(s) /\ escapable(s[i + 1]) /\ ~raw THEN pos + 1 ELSE pos + 2,
                       raw)
    ELSE IF s[i] = backtick
    THEN <<pos>> \o backticksFrom(s, i + 1, pos + 1, ~raw)
    ELSE backticksFrom(s, i + 1, pos + 1, raw)

unescapedBackticks(s) == backticksFrom(s, 1, 0, FALSE)

\* The Raw spans that pair the offsets b consecutively: 1st with 2nd, 3rd
\* with 4th; an odd last one is left alone.
rawPairs(b) == [k \in 1..(Len(b) \div 2) |-> fmt("Raw", b[2 * k - 1], b[2 * k])]

isRaw(f) == f.Kind = "Raw"

Between(x, f) == f.Beg < x /\ x < f.End

\* C3: the Raw spans are the consecutive pairs of the unescaped backticks
\* of the text, and no span of another kind has its Beg or its End strictly
\* between the Beg and the End of a Raw span.
RawPrecedence ==
    /\ tpc \in {"cite", "low", "done", "panic"} =>
           SelectSeq(cs.format, isRaw) = rawPairs(unescapedBackticks(tin))
    /\ \A j, k \in 1..Len(cs.format) :
           isRaw(cs.format[j]) /\ ~isRaw(cs.format[k]) =>
               /\ ~Between(cs.format[k].Beg, cs.format[j])
               /\ ~Between(cs.format[k].End, cs.format[j])

\* A Raw span has been emitted around an asterisk, and another asterisk
\* outside it has been paired: the text is *a`b*c`d* of overlapSmall.
RawPrecedenceWitness ==
    /\ textDone
    /\ tin = <<"*", "a", backtick, "b", "*", "c", backtick, "d", "*">>
    /\ cs.format = <<fmt("Raw", 2, 6), fmt("Italic", 0, 8)>>

\* What one step of the tokenizer loop on a backslash does, outside raw
\* text, to the body and the tokens: c is the character after the backslash.
escapeStep(c) ==
    IF escapable(c)
    THEN ts'.buf = Append(ts.buf, c) /\ ts'.tokens = ts.tokens
    ELSE ts'.buf = ts.buf \o <<"\\", RuneStr(c)>>

\* C4: the position counter of the tokenizer always equals the number of
\* code points written to the body, and outside raw text a backslash before
\* an escapable character writes only that character and adds no token, a
\* backslash before any other character writes both.
OffsetsUnescaped ==
    /\ [](tpc \in {"tok", "raw", "cite", "low", "done"} => ts.pos = Len(ts.buf))
    /\ [][TokStep /\ ts.r = "\\" /\ ~ts.inRaw => escapeStep(next(ts.b).r)]_vars

\* An escaped asterisk has been read: the body is shorter than the text and
\* holds the asterisk, and there is no token.
OffsetsUnescapedWitness ==
    /\ textDone
    /\ tin = <<"a", "\\", "*", "a">>
    /\ ts.buf = <<"a", "*", "a">>
    /\ tok0 = <<>>

asteriskKinds == {"Italic", "Bold", "BoldItalic"}

isAsterisk(x) == x.Kind \in asteriskKinds

\* The positions of the tokens increase along the slice.
increasing(toks) == \A i, j \in 1..Len(toks) : i < j => toks[i].pos < toks[j].pos

\* Two spans of one lowprec call lie apart: as pairs of tokens of the slice
\* and, where the positions increase along the slice, as intervals of the body.
apart(toks, x, y) ==
    /\ x.close < y.open \/ y.close < x.open
    /\ increasing(toks) => x.End < y.Beg \/ y.End < x.Beg

\* C5: in one call of lowprec the Italic, Bold and BoldItalic spans never
\* overlap or nest one another; the tokens *, **, ***, *, **, *** give one
\* Italic span over the two * tokens and no Bold or BoldItalic span.
AsteriskSpansApart ==
    \A n \in 1..Len(cs.scopes) :
        LET sc == cs.scopes[n]
        IN  /\ \A j, k \in 1..Len(sc.spans) :
                   j # k /\ isAsterisk(sc.spans[j]) /\ isAsterisk(sc.spans[k]) =>
                       apart(sc.toks, sc.spans[j], sc.spans[k])
            /\ [k \in 1..Len(sc.toks) |-> sc.toks[k].s] = <<"*", "**", "***", "*", "**", "***">> =>
                   /\ Len(sc.spans) = 1
                   /\ sc.spans[1].Kind = "Italic"
                   /\ sc.spans[1].open = 0 /\ sc.spans[1].close = 3

\* An Italic pair has closed over a pending ** and the ** after it has
\* found no opener: the text is *a**a*a**.
AsteriskSpansApartWitness ==
    /\ textDone
    /\ \E n \in 1..Len(cs.scopes) :
           /\ [k \in 1..Len(cs.scopes[n].toks) |-> cs.scopes[n].toks[k].s]
                  = <<"*", "**", "*", "**">>
           /\ Len(cs.scopes[n].spans) = 1
           /\ cs.scopes[n].spans[1].Kind = "Italic"

\* The token strings of the five kinds.
emphasisTokens == {"*", "**", "***", "--", "_"}

\* The spans of sc whose tokens belong to fam, in the order of emission.
spansOf(sc, fam) == SelectSeq(sc.spans, LAMBDA x : sc.toks[x.close + 1].s \in fam)

\* Token i of toks is a token of fam that repeats a token after index lo.
repeats(toks, fam, lo, i) ==
    /\ toks[i + 1].s \in fam
    /\ \E j \in (lo + 1)..(i - 1) : toks[j + 1].s = toks[i + 1].s

\* S pairs the tokens of fam in toks jointly: after the last pair closed (or
\* from the start), the first token of fam that repeats an earlier token of
\* the same string closes a pair with the first occurrence of that string,
\* every other pending token of fam is then forgotten, and so on.
jointly(toks, S, fam) ==
    LET prev(j) == IF j = 1 THEN -1 ELSE S[j - 1].close
    IN  /\ \A j \in 1..Len(S) :
               /\ prev(j) < S[j].open /\ S[j].open < S[j].close /\ S[j].close < Len(toks)
               /\ toks[S[j].open + 1].s = toks[S[j].close + 1].s
               /\ toks[S[j].close + 1].s \in fam
               /\ S[j].Kind = kindName(kindIndex(toks[S[j].close + 1].s))
               /\ S[j].Beg = toks[S[j].open + 1].pos
               /\ S[j].End = toks[S[j].close + 1].pos
               /\ \A i \in (prev(j) + 1)..(S[j].open - 1) :
                      toks[i + 1].s # toks[S[j].open + 1].s
               /\ \A i \in (prev(j) + 1)..(S[j].close - 1) : ~repeats(toks, fam, prev(j), i)
        /\ \A i \in (prev(Len(S) + 1) + 1)..(Len(toks) - 1) :
               ~repeats(toks, fam, prev(Len(S) + 1), i)

\* C6 as stated: in every lowprec call each of the five kinds is paired on
\* its own, the first unmatched token of the kind with the next one of the
\* same string, whatever the tokens of the other four kinds are.
EachKindIndependent ==
    \A n \in 1..Len(cs.scopes) :
        \A s \in emphasisTokens :
            jointly(cs.scopes[n].toks, spansOf(cs.scopes[n], {s}), {s})

\* C6, amended: Strikethrough and Underline are each paired on their own;
\* Italic, Bold and BoldItalic are paired jointly, a closing pair of any of
\* the three forgetting the pending openers of all three.
AsterisksJointOthersIndependent ==
    \A n \in 1..Len(cs.scopes) :
        /\ jointly(cs.scopes[n].toks, spansOf(cs.scopes[n], {"*", "**", "***"}),
                   {"*", "**", "***"})
        /\ jointly(cs.scopes[n].toks, spansOf(cs.scopes[n], {"--"}), {"--"})
        /\ jointly(cs.scopes[n].toks, spansOf(cs.scopes[n], {"_"}), {"_"})

\* Bold, Underline and Strikethrough pairs that overlap one another: the
\* text is **a_bbb--cc**dddd_e-- of overlapSmall.
AsterisksJointOthersIndependentWitness ==
    /\ textDone
    /\ tin = <<"*", "*", "a", "_", "b", "b", "b", "-", "-", "c", "c", "*", "*",
               "d", "d", "d", "d", "_", "e", "-", "-">>
    /\ cs.format = <<fmt("Bold", 1, 12), fmt("Underline", 3, 17), fmt("Strikethrough", 8, 20)>>

emphasisKinds == {"Italic", "Bold", "BoldItalic", "Underline", "Strikethrough"}

\* C7: no Italic, Bold, BoldItalic, Underline or Strikethrough span of a
\* returned ast.Text has exactly one of its two ends inside the label of an
\* emitted Cite span.
LabelEmphasisStaysInside ==
    textDone =>
        \A l \in 1..Len(cs.labels) :
            \A k \in 1..Len(cs.format) :
                cs.format[k].Kind \in emphasisKinds =>
                    (Between(cs.format[k].Beg, cs.labels[l])
                         <=> Between(cs.format[k].End, cs.labels[l]))

\* The lines of s: the runs of characters between its newlines.
RECURSIVE splitLines(_, _)
splitLines(s, cur) ==
    IF s = <<>> THEN <<cur>>
    ELSE IF Head(s) = "\n" THEN <<cur>> \o splitLines(Tail(s), <<>>)
    ELSE splitLines(Tail(s), Append(cur, Head(s)))

\* The lines ls joined by one newline each.
RECURSIVE joinLines(_)
joinLines(ls) ==
    IF ls = <<>> THEN <<>>
    ELSE IF Len(ls) = 1 THEN ls[1]
    ELSE ls[1] \o <<"\n">> \o joinLines(Tail(ls))

letters == {"a", "F", "S"}

\* s is made of lines of letters, directly adjacent or separated by one
\* blank line, with at most one blank line before the first and no newline
\* after the last.
textLinesDoc(s) ==
    /\ \A k \in 1..Len(s) : s[k] \in letters \cup {"\n"}
    /\ \E k \in 1..Len(s) : s[k] \in letters
    /\ s[Len(s)] # "\n"
    /\ \A k \in 1..(Len(s) - 2) : ~(s[k] = "\n" /\ s[k + 1] = "\n" /\ s[k + 2] = "\n")
    /\ ~(Len(s) >= 2 /\ s[1] = "\n" /\ s[2] = "\n")

nonEmpty(l) == l # <<>>

\* The paragraph lines of s joined by exactly one newline each.
joinedBody(s) == joinLines(SelectSeq(splitLines(s, <<>>), nonEmpty))

\* C8: the text lines of a document, adjacent or one blank line apart, come
\* back as one Paragraph whose body is the lines joined by exactly one
\* newline each, with no newline before or after, also when a list follows.
ParagraphLinesJoined ==
    parseDone =>
        /\ textLinesDoc(input) => List = <<Paragraph(joinedBody(input), <<>>)>>
        /\ input = <<"F", "\n", "S", "\n", "-", " ", "l">> =>
               /\ Len(List) = 2
               /\ List[1] = Paragraph(<<"F", "\n", "S">>, <<>>)

\* The number of places where a blank line stands between two text lines.
blankGaps(s) ==
    Cardinality({k \in 1..(Len(s) - 3) :
        s[k] \in letters /\ s[k + 1] = "\n" /\ s[k + 2] = "\n" /\ s[k + 3] \in letters})

paragraphsOf(L) == SelectSeq(L, isParagraph)

\* C9 as stated: runs of text lines with a blank line between them are
\* distinct Paragraph statements of the document, and text lines with no
\* blank line between them are one.
BlankLinesSeparate ==
    parseDone /\ textLinesDoc(input) => Len(paragraphsOf(List)) = blankGaps(input) + 1

\* C9, amended: a blank line does not separate paragraphs.  The text lines
\* of a document are one Paragraph statement whether or not blank lines
\* stand between them, and in no document Parse returns are two adjacent
\* statements both Paragraphs.
BlankLinesDoNotSeparate ==
    parseDone =>
        /\ textLinesDoc(input) => Len(List) = 1 /\ isParagraph(List[1])
        /\ \A k \in 1..(Len(List) - 1) : ~(isParagraph(List[k]) /\ isParagraph(List[k + 1]))

\* Two lines a blank line apart were read as two paragraphs and Parse has
\* returned them as one.
BlankLinesDoNotSeparateWitness ==
    /\ parseDone
    /\ input = <<"F", "\n", "\n", "S">>
    /\ Len(pre) = 2
    /\ Len(List) = 1
    /\ isParagraph(List[1])

\* C10: no Paragraph of a document Parse returns has a body that is empty
\* or only whitespace.
NoBlankParagraph ==
    parseDone => \A k \in 1..Len(List) : isParagraph(List[k]) => ~blank(List[k])

\* The number of tabs a line starts with.
RECURSIVE leadingTabs(_)
leadingTabs(l) == IF l # <<>> /\ Head(l) = "\t" THEN 1 + leadingTabs(Tail(l)) ELSE 0

\* l without the first n characters.
drop(l, n) == SubSeq(l, n + 1, Len(l))

\* t starts with one hyphen that no second hyphen follows.
singleHyphen(t) == t # <<>> /\ t[1] = "-" /\ ~(Len(t) >= 2 /\ t[2] = "-")

\* The line starts an item: after its tabs (trim = FALSE), or after all its
\* leading white space (trim = TRUE), it starts with a single hyphen.
itemStart(l, trim) ==
    singleHyphen(IF trim THEN TrimSpace(l) ELSE drop(l, leadingTabs(l)))

\* The line continues an item: it is not blank and its trimmed text does not
\* start with a hyphen.
continues(l) == TrimSpace(l) # <<>> /\ TrimSpace(l)[1] # "-"

\* The first line from k on that does not continue an item.
RECURSIVE runEnd(_, _)
runEnd(ls, k) == IF k <= Len(ls) /\ continues(ls[k]) THEN runEnd(ls, k + 1) ELSE k

\* The lines a..b-1 of ls, each after one space.
RECURSIVE spaced(_, _, _)
spaced(ls, a, b) == IF a >= b THEN <<>> ELSE <<" ">> \o ls[a] \o spaced(ls, a + 1, b)

\* The items the lines from k on make: an item-start line and the lines that
\* continue it, until a line that does neither.
RECURSIVE itemsFrom(_, _, _)
itemsFrom(ls, k, trim) ==
    IF k > Len(ls) \/ ~itemStart(ls[k], trim) THEN <<>>
    ELSE <<[NTab |-> leadingTabs(ls[k]),
            Body |-> drop(ls[k], leadingTabs(ls[k]) + 1)
                         \o spaced(ls, k + 1, runEnd(ls, k + 1))]>>
         \o itemsFrom(ls, runEnd(ls, k + 1), trim)

\* The items of the list the document starts with (none: no list).
firstItems(L) == IF L # <<>> /\ L[1].type = "List" THEN L[1].Items ELSE <<>>

tabsAndBodies(items) ==
    [k \in 1..Len(items) |-> [NTab |-> items[k].NTab, Body |-> items[k].Text.Body]]

plainListDoc(s) == s # <<>> /\ s[1] = "-" /\ \A k \in 1..Len(s) : s[k] \notin {"\\", "\r", "[", RuneError}

\* C11 as stated: in a list every line whose trimmed text starts with a
\* single hyphen starts a new item, so the list has as many items as it has
\* such lines.
EveryHyphenLineStartsItem ==
    parseDone /\ plainListDoc(input) =>
        Len(firstItems(List)) = Len(itemsFrom(splitLines(input, <<>>), 1, TRUE))

\* C11, amended: in a list a line starts a new item when, after leading tabs
\* only, it starts with a single hyphen; the lines after it that are not
\* blank and whose trimmed text does not start with a hyphen are appended to
\* the item's body, each after exactly one space; any other line ends the
\* list.  The items are those lines' items, in order, with their tab counts.
TabHyphenLineStartsItem ==
    parseDone /\ plainListDoc(input) =>
        tabsAndBodies(firstItems(List)) = itemsFrom(splitLines(input, <<>>), 1, FALSE)

\* The second item of the first case of combineListItem: three lines joined
\* by single spaces, between two one-line items.
TabHyphenLineStartsItemWitness ==
    /\ parseDone
    /\ input \in combineListItem
    /\ Len(List) = 1
    /\ tabsAndBodies(firstItems(List)) =
           << [NTab |-> 0, Body |-> <<" ", "S">>],
              [NTab |-> 0, Body |-> <<" ", "T", " ", "o", " ", "l">>],
              [NTab |-> 0, Body |-> <<" ", "E">>] >>

\* The first line from k on that belongs to no item of the list at k.
RECURSIVE itemsEnd(_, _)
itemsEnd(ls, k) ==
    IF k > Len(ls) \/ ~itemStart(ls[k], FALSE) THEN k ELSE itemsEnd(ls, runEnd(ls, k + 1))

\* The list the lines start with is ended at line k by a blank line, and
\* the line after the blank line starts with a single hyphen.
blankThenList(ls, k) ==
    /\ itemStart(ls[1], FALSE)
    /\ k < Len(ls)
    /\ TrimSpace(ls[k]) = <<>>
    /\ singleHyphen(ls[k + 1])

\* The first two statements are the lists of the lines before and after
\* the blank line k, and no blank Paragraph is in the document.
twoLists(L, ls, k) ==
    /\ Len(L) >= 2
    /\ L[1].type = "List" /\ L[2].type = "List"
    /\ tabsAndBodies(L[1].Items) = itemsFrom(ls, 1, FALSE)
    /\ tabsAndBodies(L[2].Items) = itemsFrom(ls, k + 1, FALSE)
    /\ \A n \in 1..Len(L) : isParagraph(L[n]) => ~blank(L[n])

RECURSIVE leadingThorpes(_)
leadingThorpes(s) == IF s # <<>> /\ Head(s) = "#" THEN 1 + leadingThorpes(Tail(s)) ELSE 0

\* C13: the NThorpe of a Header is the number of thorpes its line starts
\* with, and its text ends at the first newline after them: the body holds
\* no newline (and so no character of a later line).
HeaderEndsAtNewline ==
    parseDone /\ input # <<>> /\ input[1] = "#" =>
        /\ List # <<>>
        /\ List[1].type = "Header"
        /\ List[1].NThorpe = leadingThorpes(input)
        /\ \A k \in 1..Len(List[1].Text.Body) : List[1].Text.Body[k] # "\n"

\* The number of backticks s starts with.
RECURSIVE leadingTicks(_)
leadingTicks(s) ==
    IF s # <<>> /\ Head(s) = backtick THEN 1 + leadingTicks(Tail(s)) ELSE 0

\* The first line of ls from the k-th on that begins with n backticks, 0 if
\* there is none.
RECURSIVE firstClose(_, _, _)
firstClose(ls, n, k) ==
    IF k > Len(ls) THEN 0
    ELSE IF leadingTicks(ls[k]) >= n THEN k
    ELSE firstClose(ls, n, k + 1)

notTerminated(errors) ==
    {k \in 1..Len(errors) : errors[k].msg = "Directive is not terminated"}

bodyLines(s) ==
    IF splitLines(s, <<>>)[Len(splitLines(s, <<>>))] = <<>>
    THEN SubSeq(splitLines(s, <<>>), 2, Len(splitLines(s, <<>>)) - 1)
    ELSE SubSeq(splitLines(s, <<>>), 2, Len(splitLines(s, <<>>)))

\* C15: when the input ends before a closing fence, one 'Directive is not
\* terminated' diagnostic is recorded, the Directive is returned, and its
\* Raw holds every line read after the opening line, whole.
UnterminatedKeepsBody ==
    /\ parseDone
    /\ leadingTicks(input) >= 3
    /\ firstClose(splitLines(input, <<>>), leadingTicks(input), 2) = 0
    => /\ List # <<>>
       /\ List[1].type = "Directive"
       /\ Cardinality(notTerminated(p.errors)) = 1
       /\ List[1].Raw = withNewlines(bodyLines(input))

\* The places of the Citation statements of L that carry label l.
citing(L, l) == {k \in 1..Len(L) : L[k].type = "Citation" /\ L[k].Label = l}

\* The greatest element of a non-empty set of numbers.
greatest(S) == CHOOSE k \in S : \A m \in S : m <= k

\* C16: after Parse every Citation statement's label is a key of the
\* citation map, and every key maps to the Src of the last Citation
\* statement of the list that carries it.
CiteLastWriteWins ==
    parseDone =>
        /\ \A k \in 1..Len(List) :
               List[k].type = "Citation" => List[k].Label \in DOMAIN fCite
        /\ \A l \in DOMAIN fCite :
               /\ citing(List, l) # {}
               /\ fCite[l] = List[greatest(citing(List, l))].Src

\* One label defined twice with different sources: the second one is mapped.
CiteLastWriteWinsWitness ==
    /\ parseDone
    /\ Len(List) = 2
    /\ citing(List, <<"a">>) = {1, 2}
    /\ List[1].Src = <<"a">> /\ List[2].Src = <<"b">>
    /\ fCite[<<"a">>] = <<"b">>

\* The diagnostics of an error text, in its order.
RECURSIVE messagesOf(_)
messagesOf(es) ==
    IF es = <<>> THEN <<>>
    ELSE IF Head(es) = newline THEN messagesOf(Tail(es))
    ELSE <<Head(es)>> \o messagesOf(Tail(es))

\* C17: Parse returns an error exactly when a diagnostic was recorded, its
\* text holds every diagnostic in the order recorded, and MustParse panics
\* in exactly those cases and returns the document of Parse in the others.
ErrorIffDiagnostics ==
    parseDone =>
        /\ ~err.nil <=> Len(p.errors) > 0
        /\ messagesOf(err.msgs) = p.errors
        /\ must # Running =>
               /\ must.state = "panic" <=> Len(p.errors) > 0
               /\ must.state = "panic" => messagesOf(Tail(must.value)) = p.errors
               /\ must.state # "panic" => must = [state |-> "returned", file |-> File]

\* Two diagnostics recorded by one directive, and MustParse has panicked.
ErrorIffDiagnosticsWitness ==
    /\ parseDone
    /\ Len(p.errors) = 2
    /\ p.errors[1].msg # p.errors[2].msg
    /\ must.state = "panic"

\* C18: a statement that starts with '[' and finds no closing ']' is
\* recorded as a diagnostic, and the text read becomes a paragraph.
UnclosedBracketDiagnosed ==
    /\ parseDone
    /\ input # <<>>
    /\ input[1] = "["
    /\ \A k \in 1..Len(input) : input[k] # "]"
    => /\ p.errors # <<>>
       /\ ~err.nil
       /\ List # <<>>
       /\ List[1].type = "Paragraph"

\* The character c occurs in s.
has(s, c) == \E k \in 1..Len(s) : s[k] = c

\* The character c occurs in the text of statement st.
mentions(st, c) ==
    CASE st.type = "Paragraph" -> has(st.Body, c)
      [] st.type = "Header"    -> has(st.Text.Body, c)
      [] st.type = "Directive" -> has(st.Command, c) \/ has(st.Raw, c)
      [] st.type = "Citation"  -> has(st.Label, c) \/ has(st.Src, c)
      [] st.type = "List"      ->
            \E k \in 1..Len(st.Items) :
                has(st.Items[k].Label, c) \/ has(st.Items[k].Text.Body, c)
      [] OTHER                 -> FALSE

\* C19: a byte sequence that does not decode ends the input where it
\* stands: when every b of the input comes after it, no statement of the
\* document holds a b.
DecodeFailureEndsInput ==
    parseDone /\ input \in DecodeInputs =>
        \A k \in 1..Len(List) : ~mentions(List[k], "b")

\* C20: with the output taken through StdoutPipe or StderrPipe and Wait
\* called after the reader has read the pipe to end-of-file, Wait returns
\* what g.gen() returned, whatever the order of the steps of the goroutine
\* and of the caller.
WaitReturnsOwnResult == cpc = "returned" => ret = run.err

\* C21: when a Read of the Genner returns io.EOF, generation has finished
\* and the earlier Reads have returned every chunk WriteTo wrote, in order.
EOFAfterEveryByte ==
    rd.pc = "eof" =>
        /\ wt.pc = "exit"
        /\ rd.got = [k \in 1..wt.total |-> k]

\* The goroutines that are inside a Write of the sink.
inside == {t \in Threads : th[t].pc = "inside"}

\* C22: with Stdout and Stderr one writer, after Start at most one
\* goroutine at a time is inside a Write of that writer, whether it writes
\* rendered HTML, a command's standard output or its standard error.
OneWriteAtATime == Cardinality(inside) <= 1

\* The copier of standard error is inside Write and holds the mutex while
\* the copier of standard output has a chunk to write.
OneWriteAtATimeWitness ==
    /\ inside = {"stderr"}
    /\ sw.m = "stderr"
    /\ th["stdout"].pc = "write"
    /\ th["stdout"].left > 0

\* Statement k has passed the select of the loop of gen.
started(k) == k < loop.i \/ (k = loop.i /\ th["gen"].pc \notin {"select", "returned"})

\* C23: once the context is done no statement that has not started is
\* rendered; the output is that of the statements before the current one,
\* whole and in order, and of the current one; what was written stays.
CancelStopsRendering ==
    /\ [](\A k \in DOMAIN sink :
            /\ sink[k] > 0 => started(k)
            /\ k < loop.i /\ loop.List[k] = "text" => sink[k] = TextWrites)
    /\ [][\A k \in DOMAIN sink :
            /\ sink'[k] >= sink[k]
            /\ loop.ctx = "done" /\ ~started(k) => sink'[k] = 0 /\ ~started(k)']_vars

\* Two statements, the context done while the first was written: gen has
\* returned with the first whole and nothing of the second.
CancelStopsRenderingWitness ==
    /\ loop.List = <<"text", "text">>
    /\ loop.ctx = "done"
    /\ loop.i = 2
    /\ th["gen"].pc = "returned"
    /\ sink = <<TextWrites, 0>>

----------------------------------------------------------------------------
(* Generator.text: the HTML of an ast.Text                                 *)
(*                                                                         *)
(* A string is the sequence of its bytes.  The bodies rendered are ASCII,  *)
(* so a position of the parser is the byte offset Generator.text takes it  *)
(* to be.  h is the state of the function: Body, offset, and panic, set    *)
(* once an index or a slice is out of range.                               *)

\* func open(tag int) bool
open(tag) == tag % 2 = 0

anchor == 0
anchorClose == 1

\* The opening tag of an ast.Format kind (the closing tag is one more), as
\* the switch that builds rep pairs them.
tagOf(kind) ==
    CASE kind = "Cite"          -> 0
      [] kind = "Italic"        -> 2
      [] kind = "Bold"          -> 4
      [] kind = "BoldItalic"    -> 6
      [] kind = "Underline"     -> 8
      [] kind = "Strikethrough" -> 10
      [] kind = "Raw"           -> 12

\* The width of the delimiter of a kind, the w of its two replacements.
widthOf(kind) ==
    CASE kind \in {"Italic", "Underline", "Raw"} -> 1
      [] kind \in {"Bold", "Strikethrough"}      -> 2
      [] kind = "BoldItalic"                     -> 3

\* var fstr, but for anchor, whose verb Sprintf fills
fstr(kind) ==
    CASE kind = 1  -> <<"<", "/", "a", ">">>
      [] kind = 2  -> <<"<", "e", "m", ">">>
      [] kind = 3  -> <<"<", "/", "e", "m", ">">>
      [] kind = 4  -> <<"<", "s", "t", "r", "o", "n", "g", ">">>
      [] kind = 5  -> <<"<", "/", "s", "t", "r", "o", "n", "g", ">">>
      [] kind = 6  -> <<"<", "s", "t", "r", "o", "n", "g", ">", "<", "e", "m", ">">>
      [] kind = 7  -> <<"<", "/", "e", "m", ">", "<", "/", "s", "t", "r", "o", "n", "g", ">">>
      [] kind = 8  -> <<"<", "u", ">">>
      [] kind = 9  -> <<"<", "/", "u", ">">>
      [] kind = 10 -> <<"<", "s", ">">>
      [] kind = 11 -> <<"<", "/", "s", ">">>
      [] kind = 12 -> <<"<", "c", "o", "d", "e", ">">>
      [] kind = 13 -> <<"<", "/", "c", "o", "d", "e", ">">>

\* The %q of a string: quoted, a quote or a backslash in it escaped.
RECURSIVE Quoted(_)
Quoted(x) ==
    IF x = <<>> THEN <<>>
    ELSE (IF Head(x) \in {"\"", "\\"} THEN <<"\\", Head(x)>> ELSE <<Head(x)>>) \o Quoted(Tail(x))

\* fmt.Sprintf(fstr[anchor], x)
Sprintf(x) ==
    <<"<", "a", " ", "h", "r", "e", "f", "=", "\"">> \o Quoted(x) \o <<"\"", ">">>

\* html.EscapeString
RECURSIVE EscapeString(_)
EscapeString(x) ==
    IF x = <<>> THEN <<>>
    ELSE (CASE Head(x) = "&"  -> <<"&", "a", "m", "p", ";">>
            [] Head(x) = "'"  -> <<"&", "#", "3", "9", ";">>
            [] Head(x) = "<"  -> <<"&", "l", "t", ";">>
            [] Head(x) = ">"  -> <<"&", "g", "t", ";">>
            [] Head(x) = "\"" -> <<"&", "#", "3", "4", ";">>
            [] OTHER          -> <<Head(x)>>) \o EscapeString(Tail(x))

\* func replace(s, r string, pos, width int) string
replace(x, r, pos, width) == slice(x, 0, pos) \o r \o slice(x, pos + width, Len(x))

\* s[:pos] and s[pos+width:] of replace are in range
replaceOK(x, pos, width) == sliceOK(x, 0, pos) /\ sliceOK(x, pos + width, Len(x))

\* strings.Index(x, "](")
RECURSIVE IndexFrom(_, _)
IndexFrom(x, k) ==
    IF k + 1 >= Len(x) THEN -1
    ELSE IF x[k + 1] = "]" /\ x[k + 2] = "(" THEN k
    ELSE IndexFrom(x, k + 1)

Index(x) == IndexFrom(x, 0)

\* sort.Slice by the field f.  A slice of fewer than twelve elements is
\* sorted by insertion, which keeps the order of equal elements.
RECURSIVE place(_, _, _)
place(x, e, f) ==
    IF x # <<>> /\ e[f] < x[Len(x)][f]
    THEN Append(place(Pop(x), e, f), x[Len(x)])
    ELSE Append(x, e)

RECURSIVE sortSlice(_, _)
sortSlice(x, f) ==
    IF x = <<>> THEN <<>> ELSE place(sortSlice(Pop(x), f), x[Len(x)], f)

\* The Raw case of the loop that escapes raw text: the text between the
\* backticks is escaped in the body and the span moved.
escapedSpan(f, beg, esc) == [f EXCEPT !.Beg = beg, !.End = beg + Len(esc) + 1]

escapeRawWith(e, i, beg, end, esc) ==
    [Body   |-> replace(e.Body, esc, beg + 1, end - beg - 1),
     Format |-> [e.Format EXCEPT ![i] = escapedSpan(e.Format[i], beg, esc)],
     offset |-> e.offset + Len(esc) - (end - beg - 1),
     old    |-> IF Len(esc) # end - beg - 1 THEN e.Format[i].End ELSE e.old]

escapeRaw(e, i, beg, end) == escapeRawWith(e, i, beg, end, EscapeString(slice(e.Body, beg + 1, end)))

\* The other case: a position after the last escaped span is moved.
moved(e, x) == IF x > e.old THEN x + e.offset ELSE x

escapeOther(e, i) ==
    [e EXCEPT !.Format[i] = [@ EXCEPT !.Beg = moved(e, @), !.End = moved(e, @)]]

\* for i, f := range t.Format, the loop that escapes raw text
RECURSIVE escapeLoop(_, _)
escapeLoop(e, i) ==
    IF i > Len(e.Format) THEN e
    ELSE IF e.Format[i].Kind = "Raw"
    THEN escapeLoop(escapeRaw(e, i, e.Format[i].Beg + e.offset, e.Format[i].End + e.offset), i + 1)
    ELSE escapeLoop(escapeOther(e, i), i + 1)

escape(t) == escapeLoop([Body |-> t.Body, Format |-> t.Format, offset |-> 0, old |-> 0], 1)

\* type repl struct
repl(i, w, kind, extra) == [i |-> i, w |-> w, kind |-> kind, extra |-> extra]

\* begClose of a Cite
begClose(body, f) ==
    IF body[f.End + 1] = ")" THEN f.Beg + Index(slice(body, f.Beg, Len(body))) ELSE f.Beg

\* The two replacements of a span
replsOf(body, f) ==
    IF f.Kind = "Cite"
    THEN <<repl(f.Beg, f.End, anchor, 0), repl(f.End, f.End, anchorClose, begClose(body, f))>>
    ELSE <<repl(f.Beg, widthOf(f.Kind), tagOf(f.Kind), 0),
           repl(f.End, widthOf(f.Kind), tagOf(f.Kind) + 1, 0)>>

\* for _, f := range t.Format, the loop that builds rep
RECURSIVE replsLoop(_, _, _)
replsLoop(body, format, i) ==
    IF i > Len(format) THEN <<>> ELSE replsOf(body, format[i]) \o replsLoop(body, format, i + 1)

\* insert := func(i int, r repl) []repl
insert(x, i, r) == slice(x, 0, i) \o <<r>> \o slice(x, i, Len(x))

\* The body of the if that finds an opening tag that does not match: its
\* closing tag is inserted before rep[current], and it is opened again after.
reopen(x, current, rlower, rcurr) ==
    insert([insert(x, current, repl(rcurr.i, rcurr.w, rlower.kind + 1, rcurr.extra))
                EXCEPT ![current + 2].w = 0],
           current + 2, repl(rcurr.i, 0, rlower.kind, rcurr.extra))

\* for lower := current - 1; lower >= bottom; lower--, with its current++
RECURSIVE walk(_, _, _, _)
walk(x, current, lower, bottom) ==
    IF lower < bottom THEN [rep |-> x, current |-> current, panic |-> FALSE]
    ELSE IF x[lower + 1].kind # anchor /\ open(x[lower + 1].kind)
    THEN IF current >= Len(x) THEN [rep |-> x, current |-> current, panic |-> TRUE]
         ELSE IF x[current + 1].kind - x[lower + 1].kind # 1
         THEN walk(reopen(x, current, x[lower + 1], x[current + 1]), current + 1, lower - 1, bottom)
         ELSE walk(x, current + 1, lower - 1, bottom)
    ELSE walk(x, current + 1, lower - 1, bottom)

\* The replacement of an anchor
citationOfSrc(cite, src) ==
    IF src \in DOMAIN cite THEN Sprintf(TrimSpace(cite[src])) ELSE Sprintf(src)

anchorText(cite, h, f, del) ==
    IF h.Body[f.w + h.offset + 1] # ")"
    THEN Sprintf(slice(h.Body, f.i + h.offset + 1, f.w + h.offset))
    ELSE citationOfSrc(cite, slice(h.Body, del + 2, f.w + h.offset))

replaced(h, r, pos, width) ==
    IF replaceOK(h.Body, pos, width)
    THEN [h EXCEPT !.Body = replace(h.Body, r, pos, width), !.offset = h.offset + Len(r) - width]
    ELSE [h EXCEPT !.panic = TRUE]

anchorAt(cite, h, f, del) ==
    IF /\ sliceOK(h.Body, del + 2, f.w + h.offset)
       /\ f.w + h.offset < Len(h.Body)
       /\ sliceOK(h.Body, f.i + h.offset + 1, f.w + h.offset)
    THEN replaced(h, anchorText(cite, h, f, del), f.i + h.offset, 1)
    ELSE [h EXCEPT !.panic = TRUE]

replaceAnchor(cite, h, f) ==
    IF sliceOK(h.Body, f.i + h.offset, Len(h.Body))
    THEN anchorAt(cite, h, f, Index(slice(h.Body, f.i + h.offset, Len(h.Body))) + f.i + h.offset)
    ELSE [h EXCEPT !.panic = TRUE]

replaceAnchorClose(h, f) ==
    IF ~(0 <= f.w + h.offset /\ f.w + h.offset < Len(h.Body)) THEN [h EXCEPT !.panic = TRUE]
    ELSE IF h.Body[f.w + h.offset + 1] = ")"
    THEN replaced(h, fstr(f.kind), f.extra + h.offset, f.w - f.extra + 1)
    ELSE replaced(h, fstr(f.kind), f.w + h.offset, 1)

\* One turn of for _, f := range rep, the loop that replaces
replaceOne(cite, h, f) ==
    CASE f.kind = anchor      -> replaceAnchor(cite, h, f)
      [] f.kind = anchorClose -> replaceAnchorClose(h, f)
      [] OTHER                -> replaced(h, fstr(f.kind), f.i + h.offset - f.w + 1, f.w)

RECURSIVE replaceLoop(_, _, _, _)
replaceLoop(cite, h, x, k) ==
    IF k > Len(x) \/ h.panic THEN h
    ELSE replaceLoop(cite, replaceOne(cite, h, x[k]), x, k + 1)

----------------------------------------------------------------------------
(* SpecHtml: Generator.text on the Text of a paragraph                     *)

MaxTagLen == 8

\* Texts of emphasis delimiters, the texts of escapeSmall of the tests of
\* the package with their words shortened, and citations.
TagAlphabet == {"*", "_"}

EscapeTexts ==
    {<<backtick, "<", backtick>>,
     <<"*", backtick, "<", backtick, "*">>,
     <<"*", "*", backtick, "n", backtick, "*", "*">>,
     <<"A", "*", "*", backtick, "<", backtick, "*", "*", "B", "*", "*", backtick, "n", backtick, "*", "*", "C">>}

CiteTexts ==
    {<<"[", "a", "]", "(", "b", ")">>,
     <<"*", "[", "a", "*", "]", "(", "b", ")">>,
     <<"_", "[", "a", "]", "(", "b", ")", "*", "_", "*">>,
     <<"*", "[", "*", "]", "(">>}

HtmlInputs == (Seqs(TagAlphabet, MaxTagLen) \ {<<>>}) \cup EscapeTexts \cup CiteTexts

\* p.text(eof) on a reader that holds x, the first rune read
textOfNext(nx) == text(nx.r, nx.b, eof)

textOf(x) == textOfNext(next(bodyReader(x, eof, <<>>)))

\* g.file.Cite of a file without citation definitions
noCite == [x \in {} |-> <<>>]

\* g.text(&txt, cw) is called on the Text of a paragraph of the file.
HtmlInit ==
    /\ \E x \in HtmlInputs :
            /\ ~textOf(x).panic
            /\ ht = Text(textOf(x))
    /\ hpc = "sort"
    /\ rep = <<>>
    /\ fx = [bottom |-> 0, current |-> 0]
    /\ IdleText
    /\ IdleParse
    /\ IdleGen
    /\ IdleRead
    /\ IdleRun

\* sort.Slice(t.Format, ...End...)
sortFormat ==
    /\ hpc = "sort"
    /\ ht' = [ht EXCEPT !.Format = sortSlice(@, "End")]
    /\ hpc' = "escape"
    /\ UNCHANGED <<rep, fx>>
    /\ UNCHANGED <<tvars, pvars, gvars, rvars, svars>>

\* The loop that escapes raw text
escapeRawText ==
    /\ hpc = "escape"
    /\ ht' = Text(escape(ht))
    /\ hpc' = "build"
    /\ UNCHANGED <<rep, fx>>
    /\ UNCHANGED <<tvars, pvars, gvars, rvars, svars>>

\* The loop that builds rep, and sort.Slice(rep, ...i...)
buildRep ==
    /\ hpc = "build"
    /\ rep' = sortSlice(replsLoop(ht.Body, ht.Format, 1), "i")
    /\ hpc' = "fix"
    /\ UNCHANGED <<ht, fx>>
    /\ UNCHANGED <<tvars, pvars, gvars, rvars, svars>>

\* A turn of the loop that fixes the format tree on an opening tag
fixOpen ==
    /\ hpc = "fix"
    /\ fx.current < Len(rep)
    /\ open(rep[fx.current + 1].kind)
    /\ fx' = [fx EXCEPT !.current = @ + 1]
    /\ UNCHANGED <<hpc, ht, rep>>
    /\ UNCHANGED <<tvars, pvars, gvars, rvars, svars>>

\* What a turn on a closing tag leaves: bottom = current + 1, and current++
fixed(w) ==
    /\ rep' = w.rep
    /\ fx' = [bottom |-> w.current + 1, current |-> w.current + 1]
    /\ hpc' = IF w.panic THEN "panic" ELSE "fix"

\* A turn of the loop on a closing tag: the walk backwards
fixClose ==
    /\ hpc = "fix"
    /\ fx.current < Len(rep)
    /\ ~open(rep[fx.current + 1].kind)
    /\ fixed(walk(rep, fx.current, fx.current - 1, fx.bottom))
    /\ UNCHANGED ht
    /\ UNCHANGED <<tvars, pvars, gvars, rvars, svars>>

\* What the loop that replaces leaves
replacedAll(h) ==
    /\ ht' = [ht EXCEPT !.Body = h.Body]
    /\ hpc' = IF h.panic THEN "panic" ELSE "write"

\* The loop that replaces the delimiters by the tags
replaceTags ==
    /\ hpc = "fix"
    /\ fx.current >= Len(rep)
    /\ replacedAll(replaceLoop(noCite, [Body |-> ht.Body, offset |-> 0, panic |-> FALSE], rep, 1))
    /\ UNCHANGED <<rep, fx>>
    /\ UNCHANGED <<tvars, pvars, gvars, rvars, svars>>

\* return w.Write([]byte(t.Body))
textWrite ==
    /\ hpc = "write"
    /\ hpc' = "done"
    /\ UNCHANGED <<ht, rep, fx>>
    /\ UNCHANGED <<tvars, pvars, gvars, rvars, svars>>

HtmlNext == sortFormat \/ escapeRawText \/ buildRep \/ fixOpen \/ fixClose \/ replaceTags \/ textWrite

SpecHtml == HtmlInit /\ [][HtmlNext]_vars

\* The tags of a rendered body, in order: the name of each and whether it
\* closes.
RECURSIVE tagEnd(_, _)
tagEnd(x, k) == IF k > Len(x) \/ x[k] = ">" THEN k ELSE tagEnd(x, k + 1)

tagOfText(c) ==
    IF c # <<>> /\ c[1] = "/" THEN [name |-> Tail(c), closes |-> TRUE]
    ELSE IF Len(c) > 1 /\ c[2] = " " THEN [name |-> <<c[1]>>, closes |-> FALSE]
    ELSE [name |-> c, closes |-> FALSE]

RECURSIVE tagsFrom(_, _)
tagsFrom(x, k) ==
    IF k > Len(x) THEN <<>>
    ELSE IF x[k] = "<"
    THEN <<tagOfText(SubSeq(x, k + 1, tagEnd(x, k) - 1))>> \o tagsFrom(x, tagEnd(x, k) + 1)
    ELSE tagsFrom(x, k + 1)

\* Every closing tag closes the last tag opened and still open, and no tag
\* is left open.
RECURSIVE nested(_, _)
nested(tags, stack) ==
    IF tags = <<>> THEN stack = <<>>
    ELSE IF ~Head(tags).closes THEN nested(Tail(tags), Append(stack, Head(tags).name))
    ELSE /\ stack # <<>>
         /\ stack[Len(stack)] = Head(tags).name
         /\ nested(Tail(tags), Pop(stack))

\* C24: the tags of the HTML that Generator.text writes for the Text of a
\* paragraph form a tree: every closing tag closes the most recently opened
\* tag that is still open, and every opened tag is closed.
TagsFormTree == hpc = "done" => nested(tagsFrom(ht.Body, 1), <<>>)

\* A token s of the tokenizer lies at the position pos.
tokenAt(s, pos) == \E k \in 1..Len(tok0) : tok0[k].s = s /\ tok0[k].pos = pos

\* A "](" token lies after beg and before end.
sourceOpenBetween(beg, end) ==
    \E k \in 1..Len(tok0) : tok0[k].s = "](" /\ beg < tok0[k].pos /\ tok0[k].pos < end

\* C25: every Cite span of a text that ends at a ")" token begins at a "["
\* token, and a "](" token lies after that "[" and before the ")", also
\* when an earlier citation of the text has been resolved.
CiteParenHasSourceOpen ==
    textDone =>
        \A x \in 1..Len(cs.format) :
            cs.format[x].Kind = "Cite" /\ tokenAt(")", cs.format[x].End) =>
                /\ tokenAt("[", cs.format[x].Beg)
                /\ sourceOpenBetween(cs.format[x].Beg, cs.format[x].End)

\* The tokens a pass starts on
tokensOf(c) == slice(c.arr, 0, c.n)

\* The indexes of the tokens s of T after the index b
later(T, s, b) == {k \in 1..Len(T) : T[k].s = s /\ k > b}

least(S) == CHOOSE k \in S : \A m \in S : k <= m

\* The index of the last "[" of T, 0 if there is none
lastLBrack(T) == IF later(T, "[", 0) = {} THEN 0 ELSE greatest(later(T, "[", 0))

\* The last "[" at index b is followed by a "](", by no "]" and by no ")"
\* after the first "](": the two are open when the tokens end.
openAtEnd(T, b) ==
    /\ b > 0
    /\ later(T, "](", b) # {}
    /\ later(T, "]", b) = {}
    /\ later(T, ")", least(later(T, "](", b))) = {}

\* The Cite spans of a format list that begin at beg
citesAt(format, beg) ==
    {x \in 1..Len(format) : format[x].Kind = "Cite" /\ format[x].Beg = beg}

\* One Cite from the "[" at index b to the character before the first "]("
\* after it
bestEffort(T, b, format) ==
    /\ Cardinality(citesAt(format, T[b].pos)) = 1
    /\ \A x \in citesAt(format, T[b].pos) :
            format[x].End = T[least(later(T, "](", b))].pos - 1

\* C26: when the tokens of the citation pass end with a "[" and a "](" after
\* it open, the pass emits exactly one Cite for them, from the "[" to the
\* position before that of the "](" token.
BestEffortCite ==
    [][tpc = "cite" /\ openAtEnd(tokensOf(cs), lastLBrack(tokensOf(cs))) =>
            /\ ~cs'.panic
            /\ bestEffort(tokensOf(cs), lastLBrack(tokensOf(cs)), cs'.format)]_vars

\* A reader that ends with U+FFFD reads as the reader without it: both
\* give eof after the last character before it.
sameReader(q) ==
    IF q.b # <<>> /\ q.b[Len(q.b)] = RuneError THEN [q EXCEPT !.b = Pop(q.b)] ELSE q

\* C27: a statement that starts with "[" and is not a citation definition
\* becomes the paragraph that p.paragraph("") yields from the "[" on, and
\* leaves the parser where that paragraph leaves it: the text consumed is
\* replayed with no character and no backslash lost.
ReplayedAsParagraph ==
    [][/\ pc = "stmt" /\ p.st = NoStmt /\ p.r = "["
       /\ pc' = "stmt" /\ Len(List') = Len(List) + 1
       /\ isParagraph(List'[Len(List')])
       => /\ List'[Len(List')] = paragraph(p, <<>>).v
          /\ sameReader(p') = sameReader(paragraph(p, <<>>).p)]_vars

\* The line starts, after its tabs, with two hyphens.
dashLine(l) ==
    Len(l) >= leadingTabs(l) + 2 /\ l[leadingTabs(l) + 1] = "-" /\ l[leadingTabs(l) + 2] = "-"

\* a is what b begins with.
beginsWith(b, a) == Len(a) <= Len(b) /\ SubSeq(b, 1, Len(a)) = a

plainDoc(s) == s # <<>> /\ \A k \in 1..Len(s) : s[k] \notin {"\\", "\r", "[", RuneError}

\* The statements read for the lines ls, of which line k is the first that
\* belongs to no item of a list the document starts with: a Paragraph that
\* begins with line k, the first statement when k is the first line and
\* else the statement after the List of the items before it.
dashParagraph(L, ls, k) ==
    IF k = 1 THEN isParagraph(L[1]) /\ beginsWith(L[1].Body, ls[1])
    ELSE /\ Len(L) >= 2
         /\ L[1].type = "List"
         /\ Len(L[1].Items) = Len(itemsFrom(ls, 1, FALSE))
         /\ isParagraph(L[2])
         /\ beginsWith(L[2].Body, ls[k])

dashLineAt(ls, k) == k <= Len(ls) /\ dashLine(ls[k])

\* C28: a line that, after zero or more tabs, starts with two hyphens is no
\* list item: as the first line of a document it is read as a Paragraph,
\* after the items of a list it ends the list and the statement after the
\* List is a Paragraph, and the body of that Paragraph begins with the
\* tabs, the two hyphens and the rest of the line.
DashLineIsParagraph ==
    pre # <<>> /\ plainDoc(input) =>
        (dashLineAt(splitLines(input, <<>>), itemsEnd(splitLines(input, <<>>), 1)) =>
             dashParagraph(pre, splitLines(input, <<>>), itemsEnd(splitLines(input, <<>>), 1)))

\* A line of a tab and two hyphens has ended a list of one item, and the
\* Paragraph read after the List begins with the tab.
DashLineIsParagraphWitness ==
    /\ parseDone
    /\ input = <<"-", " ", "a", "\n", "\t", "-", "-", "a">>
    /\ Len(pre) = 2
    /\ pre[1].type = "List" /\ Len(pre[1].Items) = 1
    /\ pre[2] = Paragraph(<<"\t", "-", "-", "a", "\n">>, <<>>)

\* C29: a call of Wait made after an earlier Wait has returned does not
\* panic.
SecondWaitReturns == waits > 0 => cpc # "panic"

\* The position pos of the body lies inside an emitted Raw span.
insideRaw(format, pos) ==
    \E x \in 1..Len(format) :
        format[x].Kind = "Raw" /\ format[x].Beg < pos /\ pos < format[x].End

\* The text ends with a backslash that has no character after it.
RECURSIVE cutEscape(_)
cutEscape(s) ==
    IF s = <<>> THEN FALSE
    ELSE IF Head(s) # "\\" THEN cutEscape(Tail(s))
    ELSE Len(s) = 1 \/ cutEscape(drop(s, 2))

\* A backslash of the text that would be written at pos is an escape that
\* is removed: an escapable character follows and pos is in no Raw span.
removed(s, pos, format) == escapable(s[2]) /\ ~insideRaw(format, pos)

\* The body of the text s from the position pos on, the escapes outside the
\* Raw spans of format removed and every other character kept.
RECURSIVE unescaped(_, _, _)
unescaped(s, pos, format) ==
    IF s = <<>> THEN <<>>
    ELSE IF Head(s) # "\\" THEN <<Head(s)>> \o unescaped(Tail(s), pos + 1, format)
    ELSE IF removed(s, pos, format) THEN <<s[2]>> \o unescaped(drop(s, 2), pos + 1, format)
    ELSE <<"\\", s[2]>> \o unescaped(drop(s, 2), pos + 2, format)

\* The positions in that body of the characters whose escape was removed.
RECURSIVE escapedAt(_, _, _)
escapedAt(s, pos, format) ==
    IF s = <<>> THEN {}
    ELSE IF Head(s) # "\\" THEN escapedAt(Tail(s), pos + 1, format)
    ELSE IF removed(s, pos, format) THEN {pos} \cup escapedAt(drop(s, 2), pos + 1, format)
    ELSE escapedAt(drop(s, 2), pos + 2, format)

\* C30: the escapes of a text are left alone only inside the Raw spans that
\* text emits: a backslash before an escapable character outside every Raw
\* span, also after a last backtick that no backtick matches, is not in the
\* body, and no span begins or ends at the character it escapes.
EscapesKeptOnlyInRaw ==
    textDone /\ ~cutEscape(tin) =>
        /\ ts.buf = unescaped(tin, 0, cs.format)
        /\ \A x \in 1..Len(cs.format) :
                /\ cs.format[x].Beg \notin escapedAt(tin, 0, cs.format)
                /\ cs.format[x].End \notin escapedAt(tin, 0, cs.format)

====
